---- MODULE Spec2Model ----
(***************************************************************************)
(* Verification model of the vibe front end (React + Supabase).            *)
(*                                                                         *)
(*   SpecQB    the fluent SupabaseQueryBuilder: builder methods, execute() *)
(*             replaying the conditions on the remote client, and the      *)
(*             error classification of handleSupabaseError.                *)
(*   SpecApp   routing, the useAuth hook (user query, auth-state listener, *)
(*             sign-in / sign-out) and the header they drive.              *)
(*   SpecTodo  the todo page: list query, create, edit and soft delete.    *)
(***************************************************************************)
EXTENDS Integers, Sequences, FiniteSets, TLC

\* ------------------------------------------------------------------------
\* Bounds of the model
\* ------------------------------------------------------------------------
MaxCalls == 3
MaxPageIndex == 1
MaxTodos == 3
Delay == 2
MaxTime == 5
MaxRuns == 3
MaxKeyCalls == 2
\* fetches of the user query that are started
MaxFetches == 3
\* notifications that are ever added to the app store
MaxNotifications == 2
\* entries of the browser tab's history stack
MaxHistory == 3
\* toggleTheme calls
MaxToggles == 3
\* rows that tb_todolist ever holds while the list is paged
MaxRows == 7
\* builders constructed from one createSupabaseQuery(table)
MaxBuilders == 3
\* seconds of page time followed for the notification timeouts
MaxSeconds == 8
\* largest totalPages and maxPageNumbers handed to Pagination
MaxTotalPages == 6
MaxPageNumbers == 7
\* largest page, pageSize and row count handed to the pagination helpers
MaxPage == 3
MaxPageSize == 3
MaxCount == 7

\* ------------------------------------------------------------------------
\* JavaScript values that are passed through the builder
\* ------------------------------------------------------------------------
Val(k, v) == [kind |-> k, v |-> v]
Undefined == Val("undefined", <<>>)
Null == Val("null", <<>>)
IsArray(x) == x.kind = "array"

\* String.prototype.trim on a string given as a sequence of characters
RECURSIVE TrimStart(_)
TrimStart(s) ==
  IF s = <<>> THEN <<>>
  ELSE IF Head(s) = " " THEN TrimStart(Tail(s)) ELSE s

RECURSIVE TrimEnd(_)
TrimEnd(s) ==
  IF s = <<>> THEN <<>>
  ELSE IF s[Len(s)] = " " THEN TrimEnd(SubSeq(s, 1, Len(s) - 1)) ELSE s

Trim(s) == TrimEnd(TrimStart(s))

\* ------------------------------------------------------------------------
\* SupabaseQueryBuilder
\* ------------------------------------------------------------------------
NoSearch == [present |-> FALSE, columns |-> <<>>, term |-> <<>>, caseSensitive |-> FALSE]
NoPagination == [present |-> FALSE, page |-> 0, size |-> 0]

\* constructor(table): the field initialisers of the class
NewBuilder(table) ==
  [ table |-> table,
    selectedColumns |-> "*",
    whereConditions |-> <<>>,
    searchCondition |-> NoSearch,
    sortConditions |-> <<>>,
    paginationCondition |-> NoPagination,
    singleMode |-> FALSE,
    countMode |-> FALSE,
    withCountMode |-> FALSE ]

\* clone(): a new builder with every field copied
clone(b) ==
  [ table |-> b.table,
    selectedColumns |-> b.selectedColumns,
    whereConditions |-> b.whereConditions,
    searchCondition |-> b.searchCondition,
    sortConditions |-> b.sortConditions,
    paginationCondition |-> b.paginationCondition,
    singleMode |-> b.singleMode,
    countMode |-> b.countMode,
    withCountMode |-> b.withCountMode ]

select(b, columns) == [clone(b) EXCEPT !.selectedColumns = columns]

\* A stored WhereCondition object.  A JavaScript object only has the keys it
\* was built with, so the keys that were not written read as undefined.
WhereObject(type, column, value, values, pattern) ==
  [type |-> type, column |-> column, value |-> value, values |-> values, pattern |-> pattern]

\* where(column, operator, value): 'in' with an array is stored under
\* `values`, every other operator under `value`
where(b, column, operator, value) ==
  IF operator = "in" /\ IsArray(value)
  THEN [clone(b) EXCEPT !.whereConditions =
          Append(@, WhereObject("in", column, Undefined, value, Undefined))]
  ELSE [clone(b) EXCEPT !.whereConditions =
          Append(@, WhereObject(operator, column, value, Undefined, Undefined))]

search(b, columns, term, caseSensitive) ==
  IF Trim(term) = <<>> THEN b
  ELSE [clone(b) EXCEPT !.searchCondition =
          [present |-> TRUE, columns |-> columns, term |-> Trim(term),
           caseSensitive |-> caseSensitive]]

searchInColumn(b, column, term, caseSensitive) == search(b, <<column>>, term, caseSensitive)

sort(b, column, direction) ==
  [clone(b) EXCEPT !.sortConditions =
      Append(@, [column |-> column, ascending |-> (direction = "asc")])]

orderByDesc(b, column) == sort(b, column, "desc")

paginate(b, condition) ==
  [clone(b) EXCEPT !.paginationCondition =
      [present |-> TRUE, page |-> condition.page, size |-> condition.size]]

single(b) == [clone(b) EXCEPT !.singleMode = TRUE]
count(b) == [clone(b) EXCEPT !.countMode = TRUE]
withCount(b) == [clone(b) EXCEPT !.withCountMode = TRUE]

\* One call on the remote client: method, column (or column list), argument,
\* and the two numbers of range()
Call(method, column, arg, from, to) ==
  [method |-> method, column |-> column, arg |-> arg, from |-> from, to |-> to]

\* execute(), the select call: the count modes pick the options
SelectCall(b) ==
  IF b.countMode THEN Call("select", "*", Val("options", <<"exact", "head">>), -1, -1)
  ELSE IF b.withCountMode
       THEN Call("select", b.selectedColumns, Val("options", <<"exact">>), -1, -1)
       ELSE Call("select", b.selectedColumns, Undefined, -1, -1)

\* execute(), the switch over condition.type
WhereCall(c) ==
  IF c.type \in {"eq", "neq", "gt", "gte", "lt", "lte", "is"}
  THEN <<Call(c.type, c.column, c.value, -1, -1)>>
  ELSE IF c.type = "in" THEN <<Call("in", c.column, c.values, -1, -1)>>
  ELSE IF c.type \in {"like", "ilike"} THEN <<Call(c.type, c.column, c.pattern, -1, -1)>>
  ELSE <<>>

RECURSIVE WhereCalls(_)
WhereCalls(cs) == IF cs = <<>> THEN <<>> ELSE WhereCall(Head(cs)) \o WhereCalls(Tail(cs))

\* `${col}.${operator}.%${term}%` for every column, joined by ','
RECURSIVE SearchQueries(_, _, _)
SearchQueries(columns, operator, term) ==
  IF columns = <<>> THEN <<>>
  ELSE <<Head(columns), ".", operator, ".", "%">> \o term \o <<"%">>
       \o (IF Len(columns) > 1 THEN <<",">> ELSE <<>>)
       \o SearchQueries(Tail(columns), operator, term)

SearchCall(sc) ==
  IF sc.present
  THEN <<Call("or", "",
              Val("string", SearchQueries(sc.columns,
                                          IF sc.caseSensitive THEN "like" ELSE "ilike",
                                          sc.term)), -1, -1)>>
  ELSE <<>>

RECURSIVE SortCalls(_)
SortCalls(ss) ==
  IF ss = <<>> THEN <<>>
  ELSE <<Call("order", Head(ss).column,
              Val("bool", <<IF Head(ss).ascending THEN "ascending" ELSE "descending">>),
              -1, -1)>>
       \o SortCalls(Tail(ss))

RangeCall(p) ==
  IF p.present
  THEN <<Call("range", "", Undefined, p.page * p.size, p.page * p.size + p.size - 1)>>
  ELSE <<>>

SingleCall(b) == IF b.singleMode THEN <<Call("single", "", Undefined, -1, -1)>> ELSE <<>>

\* execute() with the sort loop placed before the where loop
ExecuteCalls_SortFirst(b) ==
  <<SelectCall(b)>> \o SortCalls(b.sortConditions) \o WhereCalls(b.whereConditions)
  \o SearchCall(b.searchCondition) \o RangeCall(b.paginationCondition) \o SingleCall(b)

\* execute(): the calls made on supabase.from(table) before it is awaited
ExecuteCalls(b) ==
  <<SelectCall(b)>> \o WhereCalls(b.whereConditions) \o SearchCall(b.searchCondition)
  \o SortCalls(b.sortConditions) \o RangeCall(b.paginationCondition) \o SingleCall(b)

\* ------------------------------------------------------------------------
\* Errors: backend error objects and ApiException
\* ------------------------------------------------------------------------
\* An error object.  hasCode is `'code' in error`, hasMessage is
\* `'message' in error`; isApi is `error instanceof ApiException`; isNone
\* stands for a null error.
Err(isApi, status, message, hasCode, code, details, hint) ==
  [isNone |-> FALSE, isApi |-> isApi, status |-> status, hasMessage |-> TRUE,
   message |-> message, hasCode |-> hasCode, code |-> code, details |-> details,
   hint |-> hint]

NoError ==
  [isNone |-> TRUE, isApi |-> FALSE, status |-> 0, hasMessage |-> FALSE, message |-> "",
   hasCode |-> FALSE, code |-> "", details |-> "", hint |-> ""]

\* new ApiException(status, message, code, details, hint): the constructor
\* assigns this.code, so 'code' in the exception is always true
ApiException(status, message, code, details, hint) ==
  Err(TRUE, status, message, TRUE, code, details, hint)

\* a PostgrestError returned by the database with the given code
PostgrestError(code) == Err(FALSE, 0, "db message", TRUE, code, "db details", "db hint")

\* an error object without a `code` key (for instance a TypeError of fetch)
CodelessError == Err(FALSE, 0, "failed to fetch", FALSE, "", "", "")

DbCodes == {"23505", "23503", "42501", "23514", "PGRST116"}

\* handleSupabaseError with the unique_violation and insufficient_privilege
\* cases lost: they fall through to the default branch
handleSupabaseError_NoCase(error) ==
  IF error.hasCode
  THEN ApiException(400, error.message, error.code, error.details, error.hint)
  ELSE ApiException(500, "unknown error", "UNKNOWN_ERROR", "error object", "")

\* handleSupabaseError(error): never returns, the value is the exception thrown
handleSupabaseError(error) ==
  IF error.hasCode
  THEN CASE error.code = "23505" ->
              ApiException(409, "already exists", error.code, error.details, error.hint)
         [] error.code = "23503" ->
              ApiException(400, "referenced data missing", error.code, error.details, error.hint)
         [] error.code = "42501" ->
              ApiException(403, "no permission", error.code, error.details, error.hint)
         [] error.code = "23514" ->
              ApiException(400, "invalid data format", error.code, error.details, error.hint)
         [] OTHER ->
              ApiException(400, error.message, error.code, error.details, error.hint)
  ELSE ApiException(500, "unknown error", "UNKNOWN_ERROR", "error object", "")

\* What the caller of execute() gets
Returned(shape, n) == [kind |-> "returned", shape |-> shape, count |-> n, exc |-> NoError]
Thrown(e) == [kind |-> "thrown", shape |-> "", count |-> 0, exc |-> e]
NoOutcome == [kind |-> "none", shape |-> "", count |-> 0, exc |-> NoError]

\* The answer of the awaited remote query: it resolves to {data, error, count}
\* or it rejects with an error
Response(delivery, error, n) == [delivery |-> delivery, error |-> error, count |-> n]

\* execute() after the await.  The `if (error) handleSupabaseError(error)` is
\* inside the try block, so the exception it throws is caught by the catch
\* clause of the same function and handed to handleSupabaseError again.
ExecuteOutcome(b, resp) ==
  IF resp.delivery = "rejected"
  THEN Thrown(handleSupabaseError(resp.error))
  ELSE IF ~resp.error.isNone
       THEN Thrown(handleSupabaseError(handleSupabaseError(resp.error)))
       ELSE IF b.countMode THEN Returned("count", resp.count)
            ELSE IF b.withCountMode THEN Returned("dataWithCount", resp.count)
                 ELSE Returned("data", 0)

Responses ==
  { Response("resolved", NoError, n) : n \in {0, 2} }
  \cup { Response(d, PostgrestError(c), 0) : d \in {"resolved", "rejected"}, c \in DbCodes }
  \cup { Response(d, CodelessError, 0) : d \in {"resolved", "rejected"} }

\* ------------------------------------------------------------------------
\* State
\* ------------------------------------------------------------------------
VARIABLES
  \* -- query builder --
  builder,      \* the builder the chain currently holds
  nCalls,       \* number of builder methods called on the chain
  hWhere,       \* the where(column, op, arg) calls made, in order
  hSearch,      \* the search clause in force
  hSorts,       \* the sort(column, direction) calls made, in order
  hPage,        \* the pagination window in force
  hSingle,      \* whether single() was called
  qphase,       \* "building", "awaiting" (query sent) or "done"
  calls,        \* the calls execute() made on the remote client
  response,     \* the answer of the remote client
  outcome       \* what execute() gave its caller

qbVars == <<builder, nCalls, hWhere, hSearch, hSorts, hPage, hSingle, qphase, calls,
            response, outcome>>

VARIABLES
  \* -- application: router, useAuth, backend session --
  booted,            \* the React tree has been rendered
  location,          \* the path the router is at
  shownPage,           \* the page component the route table rendered for it
  listeners,         \* components whose onAuthStateChange listener is subscribed
  session,           \* the user of the backend client's session, or NoUser
  cachedUser,        \* the ['auth','user'] entry of the request cache
  fetch,             \* the user query's request in flight
  lastEvent,         \* the last SIGNED_IN / SIGNED_OUT event delivered to a listener
  fetchedSinceEvent, \* a user-query result was written after lastEvent
  signOutState,      \* progress of the sign-out mutation
  signInCall,        \* the last authApi.signIn call
  signInOutcome,     \* what that call gave its caller
  redirectCall       \* the last signOutWithRedirect call: its target and how it ended

appVars == <<booted, location, shownPage, listeners, session, cachedUser, fetch, lastEvent,
             fetchedSinceEvent, signOutState, signInCall, signInOutcome, redirectCall>>

VARIABLES
  \* -- todo page and the tb_todolist table --
  todoTable,    \* the rows of tb_todolist, row i has id i
  currentPage,  \* TodoPage state
  searchTerm,   \* TodoPage state
  listFetch,    \* the list query's request in flight
  result,       \* the list query's data for the current query key
  createTodo,   \* the insert mutation
  updateTodo,   \* the update mutation
  softDeleted,  \* ids whose soft deletion has succeeded
  sentMethods   \* the mutating methods ever called on the remote client

todoVars == <<todoTable, currentPage, searchTerm, listFetch, result, createTodo, updateTodo,
              softDeleted, sentMethods>>

VARIABLES
  \* -- the clock and useActionDebounce --
  now,          \* Date.now() / the time of the event loop, in ticks
  isExecuting,  \* the isExecuting state of the hook (its latest set value)
  adRendered,   \* the isExecuting value the rendered debouncedFunction closes over
  adTimer,      \* when the pending timeout is due, NoTimer if none
  adRuns        \* the times at which callback ran

adVars == <<isExecuting, adRendered, adTimer, adRuns>>

VARIABLES
  \* -- throttle --
  lastExecution,  \* the lastExecution variable of the throttled function
  thTimer,        \* when the pending timeout is due, NoTimer if none
  thTimerArgs,    \* the arguments the pending timeout will pass to func
  thFirstCall,    \* the time of the first call, NoTimer before it
  thRuns          \* the executions of func: time and arguments

thVars == <<lastExecution, thTimer, thTimerArgs, thFirstCall, thRuns>>

VARIABLES
  \* -- debounce --
  dbTimer,      \* when the pending timeout is due, NoTimer if none
  dbTimerArgs,  \* the arguments the pending timeout will pass to func
  dbCalls,      \* the calls made: time, arguments, whether a timeout was pending
  dbRuns        \* the executions of func: time and arguments

dbVars == <<dbTimer, dbTimerArgs, dbCalls, dbRuns>>

VARIABLES
  \* -- two query builders whose keys are compared --
  keyA,      \* one builder
  keyB,      \* another builder
  keyCalls   \* number of builder methods called on the two

keyVars == <<keyA, keyB, keyCalls>>

VARIABLES
  \* -- a request settled by apiWrapper --
  apiRequest,   \* the request handed to apiWrapper, NoRequest before the call
  apiOutcome    \* what apiWrapper returned or threw, ApiNone while pending

apiVars == <<apiRequest, apiOutcome>>

VARIABLES
  \* -- the user query of useAuth and its retryer --
  uqStatus,        \* "idle", "fetching", "success" or "error"
  uqData,          \* the data of the query
  uqFailureCount,  \* failureCount of the retryer
  uqResponse,      \* what the backend did on each attempt so far
  uqRetries,       \* the error statuses after which the current fetch was retried
  uqFetches        \* number of fetches started

uqVars == <<uqStatus, uqData, uqFailureCount, uqResponse, uqRetries, uqFetches>>

VARIABLES
  \* -- useAppStore and its persisted snapshot --
  theme,          \* state.theme
  sidebarOpen,    \* state.sidebarOpen
  loading,        \* state.loading
  notifications,  \* state.notifications
  removalTimers,  \* ids whose removal timeout is pending
  nextId,         \* stands for crypto.randomUUID(): the next fresh id
  storage         \* local storage: item name -> stored snapshot

storeVars == <<theme, sidebarOpen, loading, notifications, removalTimers, nextId, storage>>

VARIABLES
  \* -- evaluation of shared/api/supabase.ts at startup --
  env,           \* import.meta.env, NoEnv before the build provides it
  startup,       \* "loading", "read", "thrown" or "created"
  supabase,      \* the exported client, NoClient if none was created
  createCalls    \* number of createClient calls made

envVars == <<env, startup, supabase, createCalls>>

svcVars == <<apiVars, uqVars, storeVars, envVars>>

VARIABLES
  \* -- LoginPage / SignUpPage: the redirect effect --
  lgHistory,  \* the history stack of the browser tab; its last entry is the location
  lgUser,  \* the cached user (userQuery.data ?? null)
  lgRendered,  \* the user of the page's last committed render, NoData when no such page is mounted
  lgEffect,  \* the user the pending effect closes over, NoData when none is pending
  lgLastNav  \* what changed the location last: "none", "open", "back" or "redirect"

lgVars == <<lgHistory, lgUser, lgRendered, lgEffect, lgLastNav>>

VARIABLES
  \* -- useTheme --
  thmTheme,  \* the theme state
  thmSystemDark,  \* the isSystemDark state
  thmStored,  \* local storage item 'vibe-theme', NoData when absent
  thmAttr,  \* the data-bs-theme attribute of the html element, NoData before the effect first runs
  thmLast,  \* the effective theme before and after the latest toggleTheme call
  thmToggles  \* number of toggleTheme calls

thmVars == <<thmTheme, thmSystemDark, thmStored, thmAttr, thmLast, thmToggles>>

VARIABLES
  \* -- a call of the mutation of useSupabaseMutationBuilder --
  mutCall,  \* the mutation type and the params of the latest mutate call
  mutPhase,  \* "idle", "called", "sent" or "rejected"
  mutSent  \* the calls made on supabase.from(table) and awaited

mutVars == <<mutCall, mutPhase, mutSent>>

VARIABLES
  \* -- TodoPage over a table that fills more than one page --
  pgTable,  \* the rows of tb_todolist: id -> "none", a title, or "deleted"
  pgPage,  \* the currentPage state
  pgTerm,  \* the searchTerm state
  pgResult  \* the data of the list query for the current page and term

pgVars == <<pgTable, pgPage, pgTerm, pgResult>>

VARIABLES
  \* -- useSupabaseQuery hooks over the shared query cache --
  sqHooks,  \* the options of each mounted useSupabaseQuery call, or NoHook
  sqCache,  \* query key -> the cached data of that query, or NoRows
  sqFetching  \* query key -> the options of the fetch in flight, or NoHook

sqVars == <<sqHooks, sqCache, sqFetching>>

VARIABLES
  \* -- SupabaseQueryBuilder objects on the heap --
  hpArrays,  \* the arrays allocated so far: reference -> items
  hpBuilders,  \* the builders constructed so far; their whereConditions and sortConditions are array references
  hpLast  \* the builder returned by the last method call

hpVars == <<hpArrays, hpBuilders, hpLast>>

VARIABLES
  \* -- useAppStore notifications with the time of their timeouts --
  ntNow,  \* Date.now(), in ms since the page was loaded
  ntNotifications,  \* state.notifications, each with id, type and timestamp
  ntTimers,  \* pending timeouts of addNotification: the id to remove and the time due
  ntNextId,  \* stands for crypto.randomUUID(): the next fresh id
  ntLast  \* the last removal made by a timeout: id, list before, list after, time

ntVars == <<ntNow, ntNotifications, ntTimers, ntNextId, ntLast>>

VARIABLES
  \* -- the Pagination component --
  pnTotalPages,  \* the totalPages prop
  pnMaxPageNumbers,  \* the maxPageNumbers prop
  pnCurrentPage,  \* the currentPage prop
  pnNumbers  \* the page numbers rendered, none while the component renders null

pnVars == <<pnTotalPages, pnMaxPageNumbers, pnCurrentPage, pnNumbers>>

VARIABLES
  \* -- the pagination helpers of shared/api --
  prParams,  \* the PaginationParams in use: page and pageSize
  prRange,  \* the range createPaginationQuery returned
  prCount,  \* the count of the response: null, or the number of rows of the table
  prResult  \* the PaginationResult, absent before createPaginationResult

prVars == <<prParams, prRange, prCount, prResult>>

extVars == <<lgVars, thmVars, mutVars, pgVars, sqVars, hpVars, ntVars, pnVars, prVars>>

vars == <<qbVars, appVars, todoVars, now, adVars, thVars, dbVars, keyVars, svcVars, extVars>>

notQB == <<appVars, todoVars, now, adVars, thVars, dbVars, keyVars, svcVars, extVars>>
notApp == <<qbVars, todoVars, now, adVars, thVars, dbVars, keyVars, svcVars, extVars>>
notTodo == <<qbVars, appVars, now, adVars, thVars, dbVars, keyVars, svcVars, extVars>>
notAD == <<qbVars, appVars, todoVars, thVars, dbVars, keyVars, svcVars, extVars>>
notTH == <<qbVars, appVars, todoVars, adVars, dbVars, keyVars, svcVars, extVars>>
notDB == <<qbVars, appVars, todoVars, adVars, thVars, keyVars, svcVars, extVars>>
notKey == <<qbVars, appVars, todoVars, now, adVars, thVars, dbVars, svcVars, extVars>>
notSvc == <<qbVars, appVars, todoVars, now, adVars, thVars, dbVars, keyVars, extVars>>
notApi == <<notSvc, uqVars, storeVars, envVars>>
notUQ == <<notSvc, apiVars, storeVars, envVars>>
notStore == <<notSvc, apiVars, uqVars, envVars>>
notEnv == <<notSvc, apiVars, uqVars, storeVars>>
notExt == <<qbVars, appVars, todoVars, now, adVars, thVars, dbVars, keyVars, svcVars>>
notLG == <<notExt, thmVars, mutVars, pgVars, sqVars, hpVars, ntVars, pnVars, prVars>> \* frame of lgVars
notThm == <<notExt, lgVars, mutVars, pgVars, sqVars, hpVars, ntVars, pnVars, prVars>> \* frame of thmVars
notMut == <<notExt, lgVars, thmVars, pgVars, sqVars, hpVars, ntVars, pnVars, prVars>> \* frame of mutVars
notPg == <<notExt, lgVars, thmVars, mutVars, sqVars, hpVars, ntVars, pnVars, prVars>> \* frame of pgVars
notSQ == <<notExt, lgVars, thmVars, mutVars, pgVars, hpVars, ntVars, pnVars, prVars>> \* frame of sqVars
notHp == <<notExt, lgVars, thmVars, mutVars, pgVars, sqVars, ntVars, pnVars, prVars>> \* frame of hpVars
notNt == <<notExt, lgVars, thmVars, mutVars, pgVars, sqVars, hpVars, pnVars, prVars>> \* frame of ntVars
notPn == <<notExt, lgVars, thmVars, mutVars, pgVars, sqVars, hpVars, ntVars, prVars>> \* frame of pnVars
notPr == <<notExt, lgVars, thmVars, mutVars, pgVars, sqVars, hpVars, ntVars, pnVars>> \* frame of prVars

\* ------------------------------------------------------------------------
\* Inputs of the query builder
\* ------------------------------------------------------------------------
Table == "tb_todolist"
Columns == {"title"}
CompareOps == {"eq", "neq", "gt", "gte", "lt", "lte"}
WhereOps == CompareOps \cup {"in", "is", "like", "ilike"}

\* the arguments the overloads of where() admit for each operator
ArgsFor(op) ==
  IF op = "in" THEN {Val("array", <<"a", "b">>)}
  ELSE IF op = "is" THEN {Null, Val("bool", <<"true">>)}
  ELSE IF op \in {"like", "ilike"} THEN {Val("string", <<"%", "a", "%">>)}
  ELSE {Val("scalar", <<"a">>)}

Terms == {<<" ">>, <<" ", "a", " ">>}
Directions == {"asc", "desc"}
PageSizes == {2}

InitQB ==
  /\ builder = NewBuilder(Table)
  /\ nCalls = 0
  /\ hWhere = <<>>
  /\ hSearch = NoSearch
  /\ hSorts = <<>>
  /\ hPage = NoPagination
  /\ hSingle = FALSE
  /\ qphase = "building"
  /\ calls = <<>>
  /\ response = Response("none", NoError, 0)
  /\ outcome = NoOutcome

Building == qphase = "building" /\ nCalls < MaxCalls

QSelect ==
  /\ Building
  /\ \E columns \in {"id, title"} : builder' = select(builder, columns)
  /\ nCalls' = nCalls + 1
  /\ UNCHANGED <<hWhere, hSearch, hSorts, hPage, hSingle, qphase, calls, response, outcome>>
  /\ UNCHANGED notQB

QWhere ==
  /\ Building
  /\ \E column \in Columns, op \in WhereOps :
       \E arg \in ArgsFor(op) :
          /\ builder' = where(builder, column, op, arg)
          /\ hWhere' = Append(hWhere, [column |-> column, op |-> op, arg |-> arg])
  /\ nCalls' = nCalls + 1
  /\ UNCHANGED <<hSearch, hSorts, hPage, hSingle, qphase, calls, response, outcome>>
  /\ UNCHANGED notQB

QSearch ==
  /\ Building
  /\ \E column \in Columns, term \in Terms, cs \in BOOLEAN :
       /\ builder' = searchInColumn(builder, column, term, cs)
       /\ hSearch' = IF Trim(term) = <<>> THEN hSearch
                     ELSE [present |-> TRUE, columns |-> <<column>>, term |-> Trim(term),
                           caseSensitive |-> cs]
  /\ nCalls' = nCalls + 1
  /\ UNCHANGED <<hWhere, hSorts, hPage, hSingle, qphase, calls, response, outcome>>
  /\ UNCHANGED notQB

QSort ==
  /\ Building
  /\ \E column \in Columns, direction \in Directions :
       /\ builder' = sort(builder, column, direction)
       /\ hSorts' = Append(hSorts, [column |-> column, direction |-> direction])
  /\ nCalls' = nCalls + 1
  /\ UNCHANGED <<hWhere, hSearch, hPage, hSingle, qphase, calls, response, outcome>>
  /\ UNCHANGED notQB

QPaginate ==
  /\ Building
  /\ \E page \in 0..MaxPageIndex, size \in PageSizes :
       /\ builder' = paginate(builder, [page |-> page, size |-> size])
       /\ hPage' = [present |-> TRUE, page |-> page, size |-> size]
  /\ nCalls' = nCalls + 1
  /\ UNCHANGED <<hWhere, hSearch, hSorts, hSingle, qphase, calls, response, outcome>>
  /\ UNCHANGED notQB

QSingle ==
  /\ Building
  /\ builder' = single(builder)
  /\ hSingle' = TRUE
  /\ nCalls' = nCalls + 1
  /\ UNCHANGED <<hWhere, hSearch, hSorts, hPage, qphase, calls, response, outcome>>
  /\ UNCHANGED notQB

QCount ==
  /\ Building
  /\ builder' = count(builder)
  /\ nCalls' = nCalls + 1
  /\ UNCHANGED <<hWhere, hSearch, hSorts, hPage, hSingle, qphase, calls, response, outcome>>
  /\ UNCHANGED notQB

QWithCount ==
  /\ Building
  /\ builder' = withCount(builder)
  /\ nCalls' = nCalls + 1
  /\ UNCHANGED <<hWhere, hSearch, hSorts, hPage, hSingle, qphase, calls, response, outcome>>
  /\ UNCHANGED notQB

\* execute() up to the await: the calls are made on the remote client
QExecute ==
  /\ qphase = "building"
  /\ calls' = ExecuteCalls(builder)
  /\ qphase' = "awaiting"
  /\ UNCHANGED <<builder, nCalls, hWhere, hSearch, hSorts, hPage, hSingle, response, outcome>>
  /\ UNCHANGED notQB

\* execute() from the await on: the remote client answers
QRespond ==
  /\ qphase = "awaiting"
  /\ \E resp \in Responses :
       /\ response' = resp
       /\ outcome' = ExecuteOutcome(builder, resp)
  /\ qphase' = "done"
  /\ UNCHANGED <<builder, nCalls, hWhere, hSearch, hSorts, hPage, hSingle, calls>>
  /\ UNCHANGED notQB

NextQB ==
  \/ QSelect \/ QWhere \/ QSearch \/ QSort \/ QPaginate
  \/ QSingle \/ QCount \/ QWithCount \/ QExecute \/ QRespond


\* ------------------------------------------------------------------------
\* ApiException factories and apiWrapper (shared/api/client.ts)
\* ------------------------------------------------------------------------
\* an AuthError of the backend client; its message is the error keyword
AuthError(message) == Err(FALSE, 0, message, FALSE, "", "", "")

\* statusMap is an object literal, so statusMap[key] also finds the members
\* every object inherits; none of them is a number and all are truthy
ObjectPrototypeKeys == {"constructor", "toString", "valueOf", "hasOwnProperty", "__proto__"}

\* stands for a looked-up value that is an inherited member, not a number
InheritedMember == -1

\* statusMap[message]; 0 stands for undefined
AuthStatusMap(message) ==
  CASE message = "invalid_credentials" -> 401
    [] message = "email_not_confirmed" -> 422
    [] message = "signup_disabled" -> 403
    [] message = "weak_password" -> 400
    [] message = "invalid_request" -> 400
    [] message = "rate_limit_exceeded" -> 429
    [] message \in ObjectPrototypeKeys -> InheritedMember
    [] OTHER -> 0

\* statusMap[error.message] || 400
fromAuthError(error) ==
  ApiException(IF AuthStatusMap(error.message) = 0 THEN 400 ELSE AuthStatusMap(error.message),
               error.message, error.message, "error object", "")

fromPostgrestError(error) ==
  ApiException(400, error.message, error.code, error.details, error.hint)

isAuthError(error) == ~error.isNone /\ error.hasMessage

\* The request handed to apiWrapper resolves to {data, error} or rejects.
\* dataError is the error nested inside data when data is a whole backend
\* response.
Request(rejects, dataError, error) ==
  [rejects |-> rejects, dataError |-> dataError, error |-> error]

ApiReturned(dataError) ==
  [kind |-> "returned", status |-> 200, dataError |-> dataError, exc |-> NoError]
ApiThrown(e) == [kind |-> "thrown", status |-> 0, dataError |-> NoError, exc |-> e]
ApiNone == [kind |-> "none", status |-> 0, dataError |-> NoError, exc |-> NoError]

apiWrapper(request) ==
  IF request.rejects
  THEN IF request.error.isApi THEN ApiThrown(request.error)
       ELSE ApiThrown(ApiException(500, "server error", "INTERNAL_ERROR", "error object", ""))
  ELSE IF ~request.error.isNone
       THEN IF isAuthError(request.error) THEN ApiThrown(fromAuthError(request.error))
            ELSE IF request.error.hasCode THEN ApiThrown(fromPostgrestError(request.error))
            ELSE ApiThrown(ApiException(400, "unknown error", "UNKNOWN_ERROR", "error object", ""))
       ELSE ApiReturned(request.dataError)

\* authApi.signIn: the whole backend response becomes `data`, error is null
authApi_signIn(backendResponse) ==
  apiWrapper(Request(FALSE, backendResponse.error, NoError))

\* authApi.signOut: the error of the backend response is handed on
authApi_signOut(backendResponse) ==
  apiWrapper(Request(FALSE, NoError, backendResponse.error))

\* ------------------------------------------------------------------------
\* Route table (app/providers/router/routes.tsx)
\* ------------------------------------------------------------------------
Route(index, path, element) == [index |-> index, path |-> path, element |-> element]

\* the children of the root route "/"
routes ==
  << Route(TRUE, "", "HomePage"),
     Route(FALSE, "about", "AboutPage"),
     Route(FALSE, "todos", "TodoPage"),
     Route(FALSE, "login", "LoginPage"),
     Route(FALSE, "*", "NotFoundPage") >>

\* Paths a user can enter; a path is "/" followed by one segment
Segments == {"", "about", "todos", "login", "signup", "favorites"}
Paths == Segments

\* The router's choice for a one-segment path below "/": the index route for
\* the empty segment, else the child whose static path equals the segment,
\* else the splat child.
MatchRoute(segment) ==
  LET static == {i \in 1..Len(routes) :
                   ~routes[i].index /\ routes[i].path # "*" /\ routes[i].path = segment}
      index == {i \in 1..Len(routes) : routes[i].index}
      splat == {i \in 1..Len(routes) : routes[i].path = "*"}
  IN IF segment = "" /\ index # {} THEN routes[CHOOSE i \in index : TRUE].element
     ELSE IF static # {} THEN routes[CHOOSE i \in static : TRUE].element
     ELSE IF splat # {} THEN routes[CHOOSE i \in splat : TRUE].element
     ELSE "none"

\* The components of the rendered tree that call useAuth: AuthInitializer
\* wraps the router, AppLayout (through useAuthActions) wraps every page,
\* and the login, todo and sign-up pages call it themselves.
AuthComponents(p) ==
  {"AuthInitializer", "AppLayout"}
  \cup (IF p \in {"LoginPage", "TodoPage", "SignUpPage"} THEN {p} ELSE {})

\* ------------------------------------------------------------------------
\* useAuth
\* ------------------------------------------------------------------------
Users == {"u1", "u2"}
NoUser == "null"
NoData == "undefined"

Event(type, user) == [type |-> type, user |-> user]
NoEvent == Event("none", NoUser)

\* The callback with a SIGNED_IN branch that only fills an empty cache
OnAuthStateChange_KeepFirst(st, ev) ==
  CASE ev.type = "SIGNED_IN" ->
         IF ev.user # NoUser /\ st.cache \in {NoUser, NoData}
         THEN [st EXCEPT !.cache = ev.user] ELSE st
    [] ev.type = "SIGNED_OUT" -> [st EXCEPT !.cache = NoUser, !.invalidated = TRUE]
    [] ev.type = "TOKEN_REFRESHED" -> [st EXCEPT !.invalidated = TRUE]
    [] ev.type = "USER_UPDATED" -> [st EXCEPT !.invalidated = TRUE]
    [] OTHER -> st

\* The callback given to onAuthStateChange, run by one listener.  st is the
\* request cache as the callback sees it: the cached user, and whether the
\* user query has been invalidated.
OnAuthStateChange(st, ev) ==
  CASE ev.type = "SIGNED_IN" ->
         IF ev.user # NoUser THEN [st EXCEPT !.cache = ev.user] ELSE st
    [] ev.type = "SIGNED_OUT" -> [st EXCEPT !.cache = NoUser, !.invalidated = TRUE]
    [] ev.type = "TOKEN_REFRESHED" -> [st EXCEPT !.invalidated = TRUE]
    [] ev.type = "USER_UPDATED" -> [st EXCEPT !.invalidated = TRUE]
    [] OTHER -> st

\* the backend client calls every subscribed listener with the event
RECURSIVE NotifyAllSubscribers(_, _, _)
NotifyAllSubscribers(n, st, ev) ==
  IF n = 0 THEN st ELSE NotifyAllSubscribers(n - 1, OnAuthStateChange(st, ev), ev)

Fetch(active, fetched) == [active |-> active, result |-> fetched]
NoFetch == Fetch(FALSE, NoUser)

\* user: userQuery.data ?? null
user == IF cachedUser = NoData THEN NoUser ELSE cachedUser

isLoading == cachedUser = NoData /\ fetch.active

\* AppLayout, right side of the navbar
HeaderView ==
  IF isLoading THEN "loading" ELSE IF user # NoUser THEN "profile" ELSE "login"

\* signOutWithRedirect(redirectTo): "awaiting" the sign-out, "navigated" to
\* the target, or "rethrown" the error to its caller
RedirectCall(phase, target) == [phase |-> phase, target |-> target]
NoRedirectCall == RedirectCall("none", "")

InitApp ==
  /\ booted = FALSE
  /\ location = ""
  /\ shownPage = "none"
  /\ listeners = {}
  /\ session = NoUser
  /\ cachedUser = NoData
  /\ fetch = NoFetch
  /\ lastEvent = NoEvent
  /\ fetchedSinceEvent = FALSE
  /\ signOutState = "idle"
  /\ signInCall = "none"
  /\ signInOutcome = ApiNone
  /\ redirectCall = NoRedirectCall


\* The delivery of an auth event with a request in flight left running
\* when the query is invalidated
Deliver_KeepsFetch(ev, newSession) ==
  LET st == NotifyAllSubscribers(Cardinality(listeners),
                                 [cache |-> cachedUser, invalidated |-> FALSE], ev)
      tracked == listeners # {} /\ ev.type \in {"SIGNED_IN", "SIGNED_OUT"}
  IN /\ cachedUser' = st.cache
     /\ fetch' = IF st.invalidated /\ listeners # {} /\ ~fetch.active
                 THEN Fetch(TRUE, newSession) ELSE fetch
     /\ lastEvent' = IF tracked THEN ev ELSE lastEvent
     /\ fetchedSinceEvent' = IF tracked THEN FALSE ELSE fetchedSinceEvent

\* An auth event of the backend client reaches the subscribed listeners
\* (newSession is the session after the change).  An invalidated query that
\* is being observed is refetched, which drops a request already in flight.
Deliver(ev, newSession) ==
  LET st == NotifyAllSubscribers(Cardinality(listeners),
                                 [cache |-> cachedUser, invalidated |-> FALSE], ev)
      tracked == listeners # {} /\ ev.type \in {"SIGNED_IN", "SIGNED_OUT"}
  IN /\ cachedUser' = st.cache
     /\ fetch' = IF st.invalidated /\ listeners # {} THEN Fetch(TRUE, newSession) ELSE fetch
     /\ lastEvent' = IF tracked THEN ev ELSE lastEvent
     /\ fetchedSinceEvent' = IF tracked THEN FALSE ELSE fetchedSinceEvent

\* first render of <App/>: the tree mounts, every useAuth subscribes its
\* listener and the user query starts
Boot ==
  /\ ~booted
  /\ booted' = TRUE
  /\ \E p \in Paths :
       /\ location' = p
       /\ shownPage' = MatchRoute(p)
       /\ listeners' = AuthComponents(MatchRoute(p))
  /\ fetch' = Fetch(TRUE, session)
  /\ UNCHANGED <<session, cachedUser, lastEvent, fetchedSinceEvent, signOutState,
                 signInCall, signInOutcome>>
  /\ UNCHANGED redirectCall
  /\ UNCHANGED notApp

\* the user follows a link: the old page unmounts (its listener
\* unsubscribes), the new page mounts; a page that calls useAuth refetches
\* on mount unless a request is already in flight
Navigate ==
  /\ booted
  /\ \E p \in Paths :
       /\ p # location
       /\ location' = p
       /\ shownPage' = MatchRoute(p)
       /\ listeners' = AuthComponents(MatchRoute(p))
       /\ fetch' = IF MatchRoute(p) \in AuthComponents(MatchRoute(p)) /\ ~fetch.active
                   THEN Fetch(TRUE, session) ELSE fetch
  /\ UNCHANGED <<booted, session, cachedUser, lastEvent, fetchedSinceEvent, signOutState,
                 signInCall, signInOutcome>>
  /\ UNCHANGED redirectCall
  /\ UNCHANGED notApp

\* refetchOnWindowFocus
WindowFocus ==
  /\ booted
  /\ ~fetch.active
  /\ fetch' = Fetch(TRUE, session)
  /\ UNCHANGED <<booted, location, shownPage, listeners, session, cachedUser, lastEvent,
                 fetchedSinceEvent, signOutState, signInCall, signInOutcome>>
  /\ UNCHANGED redirectCall
  /\ UNCHANGED notApp

\* queryFn of the user query returns: the user the backend reported, or
\* null when getCurrentUser threw or reported no user
FetchResolve ==
  /\ fetch.active
  /\ \E r \in {fetch.result, NoUser} : cachedUser' = r
  /\ fetch' = NoFetch
  /\ fetchedSinceEvent' = TRUE
  /\ UNCHANGED <<booted, location, shownPage, listeners, session, lastEvent, signOutState,
                 signInCall, signInOutcome>>
  /\ UNCHANGED redirectCall
  /\ UNCHANGED notApp

\* the Auth UI form signs a user in with the backend client
AuthUISignIn ==
  /\ booted
  /\ \E u \in Users :
       /\ session' = u
       /\ Deliver(Event("SIGNED_IN", u), u)
  /\ UNCHANGED <<booted, location, shownPage, listeners, signOutState, signInCall, signInOutcome>>
  /\ UNCHANGED redirectCall
  /\ UNCHANGED notApp

\* authApi.signIn(email, password): the backend accepts the credentials
\* (session stored, SIGNED_IN emitted) or rejects them (its response carries
\* an AuthError, nothing else changes)
AuthApiSignIn ==
  /\ booted
  /\ \/ \E u \in Users :
          /\ session' = u
          /\ Deliver(Event("SIGNED_IN", u), u)
          /\ signInCall' = "accepted"
          /\ signInOutcome' = authApi_signIn([error |-> NoError])
     \/ /\ signInCall' = "rejected"
        /\ signInOutcome' = authApi_signIn([error |-> AuthError("invalid_credentials")])
        /\ UNCHANGED <<session, cachedUser, fetch, lastEvent, fetchedSinceEvent>>
  /\ UNCHANGED <<booted, location, shownPage, listeners, signOutState>>
  /\ UNCHANGED redirectCall
  /\ UNCHANGED notApp

\* the backend client refreshes the token or the user record
BackendRefresh ==
  /\ booted
  /\ session # NoUser
  /\ \E t \in {"TOKEN_REFRESHED", "USER_UPDATED", "PASSWORD_RECOVERY"} :
       Deliver(Event(t, session), session)
  /\ UNCHANGED <<booted, location, shownPage, listeners, session, signOutState, signInCall,
                 signInOutcome>>
  /\ UNCHANGED redirectCall
  /\ UNCHANGED notApp

\* the session ends without the sign-out button (expiry, another tab)
SessionEnds ==
  /\ booted
  /\ session # NoUser
  /\ session' = NoUser
  /\ Deliver(Event("SIGNED_OUT", NoUser), NoUser)
  /\ UNCHANGED <<booted, location, shownPage, listeners, signOutState, signInCall, signInOutcome>>
  /\ UNCHANGED redirectCall
  /\ UNCHANGED notApp

\* the sign-out item of the profile dropdown: handleSignOut ->
\* signOutWithRedirect('/') -> signOutAsync()
ClickSignOut ==
  /\ booted
  /\ HeaderView = "profile"
  /\ signOutState \in {"idle", "error"}
  /\ signOutState' = "pending"
  /\ redirectCall' = RedirectCall("awaiting", "")
  /\ UNCHANGED <<booted, location, shownPage, listeners, session, cachedUser, fetch, lastEvent,
                 fetchedSinceEvent, signInCall, signInOutcome>>
  /\ UNCHANGED notApp

\* the backend signs out: the session is removed and SIGNED_OUT is emitted
\* before authApi.signOut returns
SignOutAccepted ==
  /\ signOutState = "pending"
  /\ authApi_signOut([error |-> NoError]).kind = "returned"
  /\ session' = NoUser
  /\ Deliver(Event("SIGNED_OUT", NoUser), NoUser)
  /\ signOutState' = "resolved"
  /\ UNCHANGED <<booted, location, shownPage, listeners, signInCall, signInOutcome>>
  /\ UNCHANGED redirectCall
  /\ UNCHANGED notApp

\* signOutWithRedirect after the await: navigate(redirectTo, {replace: true})
SignOutRedirect ==
  /\ signOutState = "resolved"
  /\ signOutState' = "idle"
  /\ location' = redirectCall.target
  /\ shownPage' = MatchRoute(redirectCall.target)
  /\ listeners' = AuthComponents(MatchRoute(redirectCall.target))
  /\ redirectCall' = [redirectCall EXCEPT !.phase = "navigated"]
  /\ UNCHANGED <<booted, session, cachedUser, fetch, lastEvent, fetchedSinceEvent,
                 signInCall, signInOutcome>>
  /\ UNCHANGED notApp

\* a failed sign-out after which signOutWithRedirect navigates all the same
SignOutFails_Navigates ==
  /\ signOutState = "pending"
  /\ authApi_signOut([error |-> AuthError("Internal Server Error")]).kind = "thrown"
  /\ signOutState' = "error"
  /\ location' = redirectCall.target
  /\ shownPage' = MatchRoute(redirectCall.target)
  /\ listeners' = AuthComponents(MatchRoute(redirectCall.target))
  /\ redirectCall' = [redirectCall EXCEPT !.phase = "navigated"]
  /\ UNCHANGED <<booted, session, cachedUser, fetch, lastEvent, fetchedSinceEvent,
                 signInCall, signInOutcome>>
  /\ UNCHANGED notApp

\* the sign-out request fails: the backend client keeps the session and
\* emits nothing; authApi.signOut throws, onError logs, signOutWithRedirect
\* rethrows and does not navigate
SignOutFails ==
  /\ signOutState = "pending"
  /\ authApi_signOut([error |-> AuthError("Internal Server Error")]).kind = "thrown"
  /\ signOutState' = "error"
  /\ redirectCall' = [redirectCall EXCEPT !.phase = "rethrown"]
  /\ UNCHANGED <<booted, location, shownPage, listeners, session, cachedUser, fetch, lastEvent,
                 fetchedSinceEvent, signInCall, signInOutcome>>
  /\ UNCHANGED notApp

\* LoginPage / SignUpPage effect: a logged-in user is sent home
LoginRedirect ==
  /\ booted
  /\ shownPage \in {"LoginPage", "SignUpPage"}
  /\ user # NoUser
  /\ location' = ""
  /\ shownPage' = MatchRoute("")
  /\ listeners' = AuthComponents(MatchRoute(""))
  /\ UNCHANGED <<booted, session, cachedUser, fetch, lastEvent, fetchedSinceEvent,
                 signOutState, signInCall, signInOutcome>>
  /\ UNCHANGED redirectCall
  /\ UNCHANGED notApp

NextApp ==
  \/ Boot \/ Navigate \/ WindowFocus \/ FetchResolve \/ AuthUISignIn \/ AuthApiSignIn
  \/ BackendRefresh \/ SessionEnds \/ ClickSignOut \/ SignOutAccepted \/ SignOutRedirect
  \/ SignOutFails \/ LoginRedirect

\* ------------------------------------------------------------------------
\* useSupabaseMutationBuilder (hooks/useSupabaseQueryBuilderV2.ts)
\* ------------------------------------------------------------------------
\* JavaScript truthiness of an id: undefined, null, '' and 0 are falsy
Truthy(v) ==
  /\ v.kind \notin {"undefined", "null"}
  /\ v.v # <<"">>
  /\ v.v # <<"0">>

\* the row values a mutation carries: a key that is absent is Undefined
Data(title, deleted_at) == [title |-> title, deleted_at |-> deleted_at]
NoData_ == Data(Undefined, Undefined)

Params(id, hasWhere, conds, data) ==
  [id |-> id, hasWhere |-> hasWhere, where |-> conds, data |-> data]

RECURSIVE ConditionCalls(_)
ConditionCalls(cs) ==
  IF cs = <<>> THEN <<>>
  ELSE <<Call(Head(cs).operator, Head(cs).column, Head(cs).value, -1, -1)>>
       \o ConditionCalls(Tail(cs))

\* mutationFn: the calls made on supabase.from(table); <<>> when it throws
\* before calling anything
MutationCalls(type, params) ==
  CASE type = "insert" ->
         <<Call("insert", "", Undefined, -1, -1), Call("select", "*", Undefined, -1, -1),
           Call("single", "", Undefined, -1, -1)>>
    [] type = "update" ->
         IF Truthy(params.id)
         THEN <<Call("update", "", Undefined, -1, -1), Call("eq", "id", params.id, -1, -1),
                Call("select", "*", Undefined, -1, -1), Call("single", "", Undefined, -1, -1)>>
         ELSE IF params.hasWhere
              THEN <<Call("update", "", Undefined, -1, -1)>> \o ConditionCalls(params.where)
                   \o <<Call("select", "*", Undefined, -1, -1)>>
              ELSE <<>>
    [] type = "delete" ->
         IF Truthy(params.id)
         THEN <<Call("delete", "", Undefined, -1, -1), Call("eq", "id", params.id, -1, -1)>>
         ELSE IF params.hasWhere
              THEN <<Call("delete", "", Undefined, -1, -1)>> \o ConditionCalls(params.where)
              ELSE <<>>
    [] OTHER -> <<>>

\* ------------------------------------------------------------------------
\* The remote table: how the backend answers the calls it receives
\* ------------------------------------------------------------------------
Row(present, title, deleted_at) ==
  [present |-> present, title |-> title, deleted_at |-> deleted_at]

\* todo.id.toString()
IdDigits == <<"1", "2", "3", "4", "5", "6", "7", "8", "9">>
IdToString(id) == Val("scalar", <<IdDigits[id]>>)

RowField(table, id, column) ==
  CASE column = "id" -> IdToString(id)
    [] column = "title" -> Val("string", table[id].title)
    [] column = "deleted_at" -> table[id].deleted_at
    [] OTHER -> Undefined

Contains(s, t) == \E i \in 0..(Len(s) - Len(t)) : SubSeq(s, i + 1, i + Len(t)) = t

\* the term of a one-column or() filter `column.ilike.%term%`
OrTerm(arg) == SubSeq(arg.v, 6, Len(arg.v) - 1)

RowMatches(table, id, c) ==
  CASE c.method \in {"eq", "is"} -> RowField(table, id, c.column) = c.arg
    [] c.method = "or" -> Contains(table[id].title, OrTerm(c.arg))
    [] OTHER -> TRUE

Matching(table, cs) ==
  {id \in 1..Len(table) :
     table[id].present /\ \A j \in 1..Len(cs) : RowMatches(table, id, cs[j])}

SetMax(S) == CHOOSE x \in S : \A y \in S : y <= x
SetMin(S) == CHOOSE x \in S : \A y \in S : x <= y

RECURSIVE Descending(_)
Descending(S) == IF S = {} THEN <<>> ELSE <<SetMax(S)>> \o Descending(S \ {SetMax(S)})

RECURSIVE Ascending(_)
Ascending(S) == IF S = {} THEN <<>> ELSE <<SetMin(S)>> \o Ascending(S \ {SetMin(S)})

HasMethod(cs, m) == \E j \in 1..Len(cs) : cs[j].method = m

\* rows are created in id order, so created_at descending is id descending
Ordered(S, cs) ==
  IF \E j \in 1..Len(cs) : cs[j].method = "order" /\ cs[j].arg.v = <<"descending">>
  THEN Descending(S) ELSE Ascending(S)

\* range(from, to): rows from..to of the ordered list, counted from 0
Ranged(ids, cs) ==
  IF HasMethod(cs, "range")
  THEN LET r == CHOOSE j \in 1..Len(cs) : cs[j].method = "range"
           lo == cs[r].from + 1
           hi == IF cs[r].to + 1 < Len(ids) THEN cs[r].to + 1 ELSE Len(ids)
       IN IF lo > hi THEN <<>> ELSE SubSeq(ids, lo, hi)
  ELSE ids

\* the answer to a select: the rows of the window and the exact count
RemoteSelect(table, cs) ==
  LET ids == Ranged(Ordered(Matching(table, cs), cs), cs)
  IN [rows |-> [k \in 1..Len(ids) |-> [id |-> ids[k], title |-> table[ids[k]].title,
                                       deleted_at |-> table[ids[k]].deleted_at]],
      totalCount |-> Cardinality(Matching(table, cs))]

ApplyData(row, data) ==
  [row EXCEPT !.title = IF data.title = Undefined THEN @ ELSE data.title.v,
              !.deleted_at = IF data.deleted_at = Undefined THEN @ ELSE data.deleted_at]

\* the table after an insert, update or delete request
RemoteMutate(table, cs, data) ==
  IF HasMethod(cs, "insert") THEN Append(table, Row(TRUE, data.title.v, Null))
  ELSE IF HasMethod(cs, "update")
       THEN [id \in 1..Len(table) |->
               IF id \in Matching(table, cs) THEN ApplyData(table[id], data) ELSE table[id]]
       ELSE IF HasMethod(cs, "delete")
            THEN [id \in 1..Len(table) |->
                    IF id \in Matching(table, cs) THEN [table[id] EXCEPT !.present = FALSE]
                    ELSE table[id]]
            ELSE table

\* ------------------------------------------------------------------------
\* TodoPage
\* ------------------------------------------------------------------------
pageSize == 5
Titles == {<<"a">>, <<"b">>}
SearchInputs == {<<" ", "a">>}
Timestamp == Val("scalar", <<"ts">>)

\* the list query without the soft-delete filter
todosQuery_NoFilter(page, term) ==
  LET q0 == select(NewBuilder(Table), "*")
      q2 == IF Trim(term) # <<>> THEN searchInColumn(q0, "title", Trim(term), FALSE) ELSE q0
      q3 == orderByDesc(q2, "created_at")
      q4 == paginate(q3, [page |-> page, size |-> pageSize])
  IN withCount(q4)

\* the builder of the list query (useMemo over currentPage, pageSize, searchTerm)
todosQuery(page, term) ==
  LET q0 == select(NewBuilder(Table), "*")
      q1 == where(q0, "deleted_at", "is", Null)
      q2 == IF Trim(term) # <<>> THEN searchInColumn(q1, "title", Trim(term), FALSE) ELSE q1
      q3 == orderByDesc(q2, "created_at")
      q4 == paginate(q3, [page |-> page, size |-> pageSize])
  IN withCount(q4)

ListFetch(phase, cs, rows, n, deletedAtSend) ==
  [phase |-> phase, calls |-> cs, rows |-> rows, totalCount |-> n,
   deletedAtSend |-> deletedAtSend]
NoListFetch == ListFetch("idle", <<>>, <<>>, 0, {})

\* queryFn: execute() of the builder sends its calls
SendList(page, term, deleted) ==
  ListFetch("sent", ExecuteCalls(todosQuery(page, term)), <<>>, 0, deleted)

Result(present, rows, n, deletedAtSend) ==
  [present |-> present, rows |-> rows, totalCount |-> n, deletedAtSend |-> deletedAtSend]
NoResult == Result(FALSE, <<>>, 0, {})

Mutation(pending, cs, data) == [pending |-> pending, calls |-> cs, data |-> data]
NoMutation == Mutation(FALSE, <<>>, NoData_)

\* totalCount and totalPages as the page computes them
totalCount == IF result.present THEN result.totalCount ELSE 0
totalPages == (totalCount + pageSize - 1) \div pageSize

MethodsOf(cs) == {cs[j].method : j \in 1..Len(cs)} \cap {"insert", "update", "delete"}

InitTodo ==
  /\ todoTable = <<>>
  /\ currentPage = 0
  /\ searchTerm = <<>>
  /\ listFetch = SendList(0, <<>>, {})
  /\ result = NoResult
  /\ createTodo = NoMutation
  /\ updateTodo = NoMutation
  /\ softDeleted = {}
  /\ sentMethods = {}

\* ------------------------------------------------------------------------
\* Timers (setTimeout / clearTimeout) and useActionDebounce
\* (shared/util/debounce.ts)
\* ------------------------------------------------------------------------
NoTimer == -1

\* Date.now() is far more than `delay` after the epoch
StartTime == Delay

\* a timeout is due: its callback is in the task queue
Due(timer) == timer # NoTimer /\ timer <= now

InitClock == now = StartTime

InitAD ==
  /\ isExecuting = FALSE
  /\ adRendered = FALSE
  /\ adTimer = NoTimer
  /\ adRuns = <<>>


\* debouncedFunction(...args) of the last render
ADInvoke ==
  /\ Len(adRuns) < MaxRuns
  /\ IF adRendered
     THEN UNCHANGED adVars
     ELSE /\ isExecuting' = TRUE
          /\ adRuns' = Append(adRuns, now)
          /\ adTimer' = now + Delay
          /\ UNCHANGED adRendered
  /\ UNCHANGED now
  /\ UNCHANGED notAD

\* the component re-renders: useCallback builds debouncedFunction again
\* over the current isExecuting
ADRender ==
  /\ adRendered # isExecuting
  /\ adRendered' = isExecuting
  /\ UNCHANGED <<isExecuting, adTimer, adRuns, now>>
  /\ UNCHANGED notAD

\* the timeout callback: setIsExecuting(false)
ADTimerFires ==
  /\ Due(adTimer)
  /\ isExecuting' = FALSE
  /\ adTimer' = NoTimer
  /\ UNCHANGED <<adRendered, adRuns, now>>
  /\ UNCHANGED notAD

\* a tick passes once the due timeout has run and the render is committed
ADTick ==
  /\ now < StartTime + MaxTime
  /\ ~Due(adTimer)
  /\ adRendered = isExecuting
  /\ now' = now + 1
  /\ UNCHANGED adVars
  /\ UNCHANGED notAD

NextAD == ADInvoke \/ ADRender \/ ADTimerFires \/ ADTick

\* ------------------------------------------------------------------------
\* throttle (shared/ui/index.ts)
\* ------------------------------------------------------------------------
Args == {"a", "b"}
NoArgs == "none"

Execution(t, args) == [t |-> t, args |-> args]

\* the throttled function, called with args
THCall ==
  /\ Len(thRuns) < MaxRuns
  /\ \E args \in Args :
       IF now - lastExecution >= Delay
       THEN /\ lastExecution' = now
            /\ thRuns' = Append(thRuns, Execution(now, args))
            /\ UNCHANGED <<thTimer, thTimerArgs>>
       ELSE /\ thTimer' = now + (Delay - (now - lastExecution))
            /\ thTimerArgs' = args
            /\ UNCHANGED <<lastExecution, thRuns>>
  /\ thFirstCall' = IF thFirstCall = NoTimer THEN now ELSE thFirstCall
  /\ UNCHANGED now
  /\ UNCHANGED notTH

\* the timeout callback: lastExecution = Date.now(); func(...args)
THTimerFires ==
  /\ Due(thTimer)
  /\ lastExecution' = now
  /\ thRuns' = Append(thRuns, Execution(now, thTimerArgs))
  /\ thTimer' = NoTimer
  /\ thTimerArgs' = NoArgs
  /\ UNCHANGED <<thFirstCall, now>>
  /\ UNCHANGED notTH

\* a tick passes once the due timeout has run
THTick ==
  /\ now < StartTime + MaxTime
  /\ ~Due(thTimer)
  /\ now' = now + 1
  /\ UNCHANGED thVars
  /\ UNCHANGED notTH

InitTH ==
  /\ lastExecution = 0
  /\ thTimer = NoTimer
  /\ thTimerArgs = NoArgs
  /\ thFirstCall = NoTimer
  /\ thRuns = <<>>

NextTH == THCall \/ THTimerFires \/ THTick

\* ------------------------------------------------------------------------
\* debounce (shared/util/debounce.ts)
\* ------------------------------------------------------------------------
DebounceCall(t, args, pending) == [t |-> t, args |-> args, pending |-> pending]

\* the debounced function that leaves a pending timeout and its arguments
\* as they are
DBCall_KeepsPending ==
  /\ Len(dbCalls) < MaxRuns
  /\ \E args \in Args :
       /\ dbTimer' = IF dbTimer # NoTimer THEN dbTimer ELSE now + Delay
       /\ dbTimerArgs' = IF dbTimer # NoTimer THEN dbTimerArgs ELSE args
       /\ dbCalls' = Append(dbCalls, DebounceCall(now, args, dbTimer # NoTimer))
  /\ UNCHANGED <<dbRuns, now>>
  /\ UNCHANGED notDB

\* the debounced function, called with args: clearTimeout, setTimeout
DBCall ==
  /\ Len(dbCalls) < MaxRuns
  /\ \E args \in Args :
       /\ dbTimer' = now + Delay
       /\ dbTimerArgs' = args
       /\ dbCalls' = Append(dbCalls, DebounceCall(now, args, dbTimer # NoTimer))
  /\ UNCHANGED <<dbRuns, now>>
  /\ UNCHANGED notDB

\* the timeout callback: func(...args)
DBTimerFires ==
  /\ Due(dbTimer)
  /\ dbRuns' = Append(dbRuns, Execution(now, dbTimerArgs))
  /\ dbTimer' = NoTimer
  /\ dbTimerArgs' = NoArgs
  /\ UNCHANGED <<dbCalls, now>>
  /\ UNCHANGED notDB

\* a tick passes once the due timeout has run
DBTick ==
  /\ now < StartTime + MaxTime
  /\ ~Due(dbTimer)
  /\ now' = now + 1
  /\ UNCHANGED dbVars
  /\ UNCHANGED notDB

InitDB ==
  /\ dbTimer = NoTimer
  /\ dbTimerArgs = NoArgs
  /\ dbCalls = <<>>
  /\ dbRuns = <<>>

NextDB == DBCall \/ DBTimerFires \/ DBTick

\* ------------------------------------------------------------------------
\* Query keys (getQueryKey) and the request cache's hash of a key
\* ------------------------------------------------------------------------
\* getQueryKey without the withCount entry
getQueryKey_NoWithCount(b) ==
  <<b.table,
    [select |-> b.selectedColumns, where |-> b.whereConditions, search |-> b.searchCondition,
     sort |-> b.sortConditions, pagination |-> b.paginationCondition,
     single |-> b.singleMode, count |-> b.countMode, withCount |-> FALSE]>>

getQueryKey(b) ==
  <<b.table,
    [select |-> b.selectedColumns, where |-> b.whereConditions, search |-> b.searchCondition,
     sort |-> b.sortConditions, pagination |-> b.paginationCondition,
     single |-> b.singleMode, count |-> b.countMode, withCount |-> b.withCountMode]>>

\* JSON.stringify, as a sequence of tokens.  A property whose value is
\* undefined is left out; the keys of an object are written in sorted order.
Quoted(chars) == <<"\"">> \o chars \o <<"\"">>

JsonBool(x) == IF x THEN <<"true">> ELSE <<"false">>

RECURSIVE JsonItems(_)
JsonItems(items) ==
  IF items = <<>> THEN <<>>
  ELSE Quoted(<<Head(items)>>) \o <<",">> \o JsonItems(Tail(items))

JsonValue(x) ==
  CASE x.kind = "null" -> <<"null">>
    [] x.kind = "string" -> Quoted(x.v)
    [] x.kind = "array" -> <<"[">> \o JsonItems(x.v) \o <<"]">>
    [] OTHER -> x.v

Prop(name, x) == IF x = Undefined THEN <<>> ELSE <<name, ":">> \o JsonValue(x) \o <<",">>

JsonWhere(c) ==
  <<"{", "column", ":">> \o Quoted(<<c.column>>) \o <<",">> \o Prop("pattern", c.pattern)
  \o <<"type", ":">> \o Quoted(<<c.type>>) \o <<",">> \o Prop("value", c.value)
  \o Prop("values", c.values) \o <<"}">>

RECURSIVE JsonWheres(_)
JsonWheres(cs) ==
  IF cs = <<>> THEN <<>> ELSE JsonWhere(Head(cs)) \o <<",">> \o JsonWheres(Tail(cs))

RECURSIVE JsonColumns(_)
JsonColumns(cols) ==
  IF cols = <<>> THEN <<>> ELSE Quoted(<<Head(cols)>>) \o <<",">> \o JsonColumns(Tail(cols))

JsonSearch(sc) ==
  IF ~sc.present THEN <<>>
  ELSE <<"search", ":", "{", "caseSensitive", ":">> \o JsonBool(sc.caseSensitive)
       \o <<",", "columns", ":", "[">> \o JsonColumns(sc.columns)
       \o <<"]", ",", "term", ":">> \o Quoted(sc.term) \o <<"}", ",">>

RECURSIVE JsonSorts(_)
JsonSorts(ss) ==
  IF ss = <<>> THEN <<>>
  ELSE <<"{", "ascending", ":">> \o JsonBool(Head(ss).ascending)
       \o <<",", "column", ":">> \o Quoted(<<Head(ss).column>>) \o <<"}", ",">>
       \o JsonSorts(Tail(ss))

JsonPagination(pc) ==
  IF ~pc.present THEN <<>>
  ELSE <<"pagination", ":", "{", "page", ":", ToString(pc.page), ",",
         "size", ":", ToString(pc.size), "}", ",">>

\* hashKey(queryKey) of the request cache
hashKey(key) ==
  <<"[">> \o Quoted(<<key[1]>>) \o <<",", "{", "count", ":">> \o JsonBool(key[2].count)
  \o <<",">> \o JsonPagination(key[2].pagination) \o JsonSearch(key[2].search)
  \o <<"select", ":">> \o Quoted(<<key[2].select>>)
  \o <<",", "single", ":">> \o JsonBool(key[2].single)
  \o <<",", "sort", ":", "[">> \o JsonSorts(key[2].sort)
  \o <<"]", ",", "where", ":", "[">> \o JsonWheres(key[2].where)
  \o <<"]", ",", "withCount", ":">> \o JsonBool(key[2].withCount) \o <<"}", "]">>

Tables == {Table, "tb_user"}

\* the builders one more method call makes of b
OneCall(b) ==
  {select(b, columns) : columns \in {"*", "id, title"}}
  \cup UNION {{where(b, column, op, arg) : arg \in ArgsFor(op)} :
                column \in Columns, op \in WhereOps}
  \cup {searchInColumn(b, column, term, cs) :
          column \in Columns, term \in Terms, cs \in BOOLEAN}
  \cup {sort(b, column, direction) : column \in Columns, direction \in Directions}
  \cup {paginate(b, [page |-> pg, size |-> size]) : pg \in 0..MaxPageIndex, size \in PageSizes}
  \cup {single(b), count(b), withCount(b)}

InitKey ==
  /\ keyA = NewBuilder(Table)
  /\ keyB = NewBuilder(Table)
  /\ keyCalls = 0

\* createSupabaseQuery(table) for the second builder
KeyNewB ==
  /\ keyCalls = 0
  /\ \E table \in Tables : keyB' = NewBuilder(table)
  /\ keyB' # keyB
  /\ UNCHANGED <<keyA, keyCalls>>
  /\ UNCHANGED notKey

\* a builder method is called on the first builder
KeyCallA ==
  /\ keyCalls < MaxKeyCalls
  /\ keyA' \in OneCall(keyA)
  /\ keyCalls' = keyCalls + 1
  /\ UNCHANGED keyB
  /\ UNCHANGED notKey

\* a builder method is called on the second builder
KeyCallB ==
  /\ keyCalls < MaxKeyCalls
  /\ keyB' \in OneCall(keyB)
  /\ keyCalls' = keyCalls + 1
  /\ UNCHANGED keyA
  /\ UNCHANGED notKey

NextKey == KeyNewB \/ KeyCallA \/ KeyCallB

\* ------------------------------------------------------------------------
\* Calls of apiWrapper (shared/api/client.ts)
\* ------------------------------------------------------------------------
\* the messages of the authentication errors the backend answers with
AuthMessages ==
  {"invalid_credentials", "email_not_confirmed", "signup_disabled", "weak_password",
   "invalid_request", "rate_limit_exceeded", "Invalid login credentials", "", "constructor"}

\* an error object that has a code but no message key
CodeOnlyError(code) == [PostgrestError(code) EXCEPT !.hasMessage = FALSE, !.message = ""]

\* an error object with neither key
ShapelessError == [CodelessError EXCEPT !.hasMessage = FALSE, !.message = ""]

AuthErrors == {AuthError(m) : m \in AuthMessages}

TableErrors == {PostgrestError(c) : c \in DbCodes} \cup {CodeOnlyError(c) : c \in DbCodes}

\* what the backend client resolves with: its data and its error
BackendResponse(error) == [error |-> error]

\* a call of apiWrapper: who makes it and the request it is given
ApiCall(caller, request) == [caller |-> caller, request |-> request]

NoRequest == ApiCall("", Request(FALSE, NoError, NoError))

\* the requests the authApi methods build from a backend response
AuthApiCalls ==
  {ApiCall(m, Request(FALSE, r.error, NoError)) :
     m \in {"getCurrentUser", "signIn"}, r \in {BackendResponse(e) : e \in AuthErrors \cup {NoError}}}
  \cup
  {ApiCall(m, Request(FALSE, NoError, r.error)) :
     m \in {"signUp", "signOut", "resetPassword"},
     r \in {BackendResponse(e) : e \in AuthErrors \cup {NoError}}}

\* apiWrapper is exported: requests resolving with a table-operation
\* response, with an error of another shape, or rejecting
DirectCalls ==
  {ApiCall("apiWrapper", Request(FALSE, NoError, e)) :
     e \in TableErrors \cup {CodelessError, ShapelessError, NoError}}
  \cup
  {ApiCall("apiWrapper", Request(TRUE, NoError, e)) :
     e \in {CodelessError, ApiException(500, "server error", "INTERNAL_ERROR", "", "")}}

InitApi ==
  /\ apiRequest = NoRequest
  /\ apiOutcome = ApiNone

\* apiWrapper(request) is called; `await request()` is pending
ApiWrapperCalled ==
  /\ apiOutcome.kind # "none" \/ apiRequest = NoRequest
  /\ \E c \in AuthApiCalls \cup DirectCalls : apiRequest' = c
  /\ apiOutcome' = ApiNone
  /\ UNCHANGED notApi

\* the request settles and apiWrapper returns or throws
ApiWrapperSettles ==
  /\ apiRequest # NoRequest
  /\ apiOutcome.kind = "none"
  /\ apiOutcome' = apiWrapper(apiRequest.request)
  /\ UNCHANGED <<apiRequest, notApi>>

NextApi == ApiWrapperCalled \/ ApiWrapperSettles

\* ------------------------------------------------------------------------
\* The user query of useAuth and its retry option (src/unnamed/part_011)
\* ------------------------------------------------------------------------
\* what the backend did on an attempt: kind is "none", "user" (resolved with
\* a user or with null), "error" (resolved with an error in the response) or
\* "rejects" (the call threw); status is the status of the error
BackendOutcome(kind, status, data) == [kind |-> kind, status |-> status, data |-> data]

\* supabase.auth.getUser() resolves with a user, resolves with an
\* authentication error and no user, or throws another error
BackendOutcomes ==
  {BackendOutcome("user", 200, u) : u \in Users \cup {NoUser}}
  \cup {BackendOutcome("error", st, NoUser) : st \in {401, 403}}
  \cup {BackendOutcome("rejects", st, NoUser) : st \in {0, 401, 500}}

\* the settlement of queryFn: whether it threw, the data it returned, and
\* the status of what it threw
Settled(threw, data, status) == [threw |-> threw, data |-> data, status |-> status]

\* queryFn: authApi.getCurrentUser() awaits the backend (a throw of it is
\* thrown on), then wraps the whole response as data with a null error, so
\* apiWrapper returns; response.data.data.user is the user or null.  The
\* catch turns every throw into a returned null.
queryFn(answer) ==
  IF answer.kind = "rejects"
  THEN Settled(FALSE, NoUser, 0)
  ELSE Settled(FALSE, answer.data, 0)

\* the retry option: retry(failureCount, error)
retry(failureCount, status) ==
  IF status = 401 \/ status = 403 THEN FALSE ELSE failureCount < 2

InitUQ ==
  /\ uqStatus = "idle"
  /\ uqData = NoData
  /\ uqFailureCount = 0
  /\ uqResponse = <<>>
  /\ uqRetries = <<>>
  /\ uqFetches = 0

\* the query starts a fetch: on mount, on window focus, on invalidation
UQFetch ==
  /\ uqStatus # "fetching"
  /\ uqFetches < MaxFetches
  /\ uqStatus' = "fetching"
  /\ uqFailureCount' = 0
  /\ uqRetries' = <<>>
  /\ uqFetches' = uqFetches + 1
  /\ UNCHANGED <<uqData, uqResponse, notUQ>>

\* an attempt settles with queryFn's catch lost and the retry option
\* replaced by the number 3: every throw of the backend call is retried
\* until three failures are counted
UQAttemptSettles_RetriesThrows ==
  /\ uqStatus = "fetching"
  /\ \E answer \in BackendOutcomes :
       /\ uqResponse' = Append(uqResponse, answer)
       /\ IF answer.kind = "rejects"
          THEN IF uqFailureCount < 3
               THEN /\ uqFailureCount' = uqFailureCount + 1
                    /\ uqRetries' = Append(uqRetries, answer.status)
                    /\ UNCHANGED <<uqStatus, uqData>>
               ELSE /\ uqStatus' = "error"
                    /\ UNCHANGED <<uqData, uqFailureCount, uqRetries>>
          ELSE /\ uqStatus' = "success"
               /\ uqData' = answer.data
               /\ UNCHANGED <<uqFailureCount, uqRetries>>
  /\ UNCHANGED <<uqFetches, notUQ>>

\* one attempt of the fetch settles; the retryer of the request cache asks
\* retry(failureCount, error) when queryFn threw, and on true counts the
\* failure and runs queryFn again
UQAttemptSettles ==
  /\ uqStatus = "fetching"
  /\ \E answer \in BackendOutcomes :
       LET settled == queryFn(answer) IN
       /\ uqResponse' = Append(uqResponse, answer)
       /\ IF settled.threw
          THEN IF retry(uqFailureCount, settled.status)
               THEN /\ uqFailureCount' = uqFailureCount + 1
                    /\ uqRetries' = Append(uqRetries, settled.status)
                    /\ UNCHANGED <<uqStatus, uqData>>
               ELSE /\ uqStatus' = "error"
                    /\ UNCHANGED <<uqData, uqFailureCount, uqRetries>>
          ELSE /\ uqStatus' = "success"
               /\ uqData' = settled.data
               /\ UNCHANGED <<uqFailureCount, uqRetries>>
  /\ UNCHANGED <<uqFetches, notUQ>>

NextUQ == UQFetch \/ UQAttemptSettles

\* ------------------------------------------------------------------------
\* useAppStore (shared/stores/appStore.ts)
\* ------------------------------------------------------------------------
\* no item under the name in local storage
NoItem == [keys |-> {}, theme |-> "", sidebarOpen |-> FALSE, loading |-> FALSE,
           notifications |-> <<>>]

InitStore ==
  /\ theme = "light"
  /\ sidebarOpen = FALSE
  /\ loading = FALSE
  /\ notifications = <<>>
  /\ removalTimers = {}
  /\ nextId = 1
  /\ storage = [name \in {"app-store"} |-> NoItem]

Themes == {"light", "dark"}

NotificationTypes == {"success", "error"}

\* the data of the store's state (its actions are functions, which the
\* JSON serialisation of a snapshot leaves out)
StoreState(th, open, ld, ns) ==
  [theme |-> th, sidebarOpen |-> open, loading |-> ld, notifications |-> ns]

\* a snapshot that carries every data key of the state
partialize_WholeState(state) ==
  [keys |-> {"theme", "sidebarOpen", "loading", "notifications"},
   theme |-> state.theme, sidebarOpen |-> state.sidebarOpen,
   loading |-> state.loading, notifications |-> state.notifications]

\* partialize: the object with the keys theme and sidebarOpen
partialize(state) ==
  [keys |-> {"theme", "sidebarOpen"},
   theme |-> state.theme, sidebarOpen |-> state.sidebarOpen,
   loading |-> FALSE, notifications |-> <<>>]

\* set(partial) of the persist middleware: the state is replaced and
\* partialize of the new state is stored under the name 'app-store'
SetState(th, open, ld, ns) ==
  /\ theme' = th
  /\ sidebarOpen' = open
  /\ loading' = ld
  /\ notifications' = ns
  /\ storage' = [storage EXCEPT !["app-store"] = partialize(StoreState(th, open, ld, ns))]

\* notifications.filter(n => n.id !== id)
WithoutId(ns, id) == SelectSeq(ns, LAMBDA n : n.id # id)

setTheme ==
  /\ \E th \in Themes : SetState(th, sidebarOpen, loading, notifications)
  /\ UNCHANGED <<removalTimers, nextId, notStore>>

toggleSidebar ==
  /\ SetState(theme, ~sidebarOpen, loading, notifications)
  /\ UNCHANGED <<removalTimers, nextId, notStore>>

setSidebarOpen ==
  /\ \E open \in BOOLEAN : SetState(theme, open, loading, notifications)
  /\ UNCHANGED <<removalTimers, nextId, notStore>>

setLoading ==
  /\ \E ld \in BOOLEAN : SetState(theme, sidebarOpen, ld, notifications)
  /\ UNCHANGED <<removalTimers, nextId, notStore>>

\* addNotification: a fresh id, the notification appended, and a timeout
\* set that removes it
addNotification ==
  /\ nextId <= MaxNotifications
  /\ \E type \in NotificationTypes :
       SetState(theme, sidebarOpen, loading,
                Append(notifications, [id |-> nextId, type |-> type]))
  /\ removalTimers' = removalTimers \cup {nextId}
  /\ nextId' = nextId + 1
  /\ UNCHANGED notStore

\* removeNotification(id), called by a component
removeNotification ==
  /\ \E id \in 1..MaxNotifications :
       SetState(theme, sidebarOpen, loading, WithoutId(notifications, id))
  /\ UNCHANGED <<removalTimers, nextId, notStore>>

\* the timeout of addNotification fires: get().removeNotification(id)
RemovalTimerFires ==
  /\ \E id \in removalTimers :
       /\ SetState(theme, sidebarOpen, loading, WithoutId(notifications, id))
       /\ removalTimers' = removalTimers \ {id}
  /\ UNCHANGED <<nextId, notStore>>

clearNotifications ==
  /\ SetState(theme, sidebarOpen, loading, <<>>)
  /\ UNCHANGED <<removalTimers, nextId, notStore>>

\* the page is loaded again: the store is created with its initial state,
\* pending timeouts are gone, and the persist middleware merges the stored
\* snapshot over the initial state.  Whether the merged state is written
\* back at once depends on the version of the middleware.
Reload ==
  /\ LET item == storage["app-store"]
         th == IF "theme" \in item.keys THEN item.theme ELSE "light"
         open == IF "sidebarOpen" \in item.keys THEN item.sidebarOpen ELSE FALSE
         ld == IF "loading" \in item.keys THEN item.loading ELSE FALSE
         ns == IF "notifications" \in item.keys THEN item.notifications ELSE <<>>
     IN  \/ SetState(th, open, ld, ns)
         \/ /\ theme' = th
            /\ sidebarOpen' = open
            /\ loading' = ld
            /\ notifications' = ns
            /\ UNCHANGED storage
  /\ removalTimers' = {}
  /\ UNCHANGED <<nextId, notStore>>

NextStore ==
  \/ setTheme \/ toggleSidebar \/ setSidebarOpen \/ setLoading
  \/ addNotification \/ removeNotification \/ RemovalTimerFires \/ clearNotifications
  \/ Reload

\* ------------------------------------------------------------------------
\* Startup of the backend client (shared/api/supabase.ts)
\* ------------------------------------------------------------------------
NoEnv == [VITE_SUPABASE_URL |-> "unread", VITE_SUPABASE_ANON_KEY |-> "unread",
          VITE_GOOGLE_CLIENT_ID |-> "unread"]

NoClient == [created |-> FALSE, url |-> "", key |-> ""]

InitEnv ==
  /\ env = NoEnv
  /\ startup = "loading"
  /\ supabase = NoClient
  /\ createCalls = 0

\* the values a variable of import.meta.env can have: "undefined" when it
\* is not defined, the empty string, or a text
UrlValues == {"undefined", "", "https://a.supabase.co", "https://b.supabase.co", "not a url"}
KeyValues == {"undefined", "", "anon key 1", "anon key 2"}
ClientIdValues == {"undefined", "", "client id"}

Envs ==
  [VITE_SUPABASE_URL : UrlValues, VITE_SUPABASE_ANON_KEY : KeyValues,
   VITE_GOOGLE_CLIENT_ID : ClientIdValues]

\* !value for a string or undefined
Falsy(value) == value = "undefined" \/ value = ""

\* createClient accepts a URL it can parse and a key that is not empty,
\* and throws otherwise
Accepted(url, key) ==
  /\ url \in {"https://a.supabase.co", "https://b.supabase.co"}
  /\ ~Falsy(key)

\* lines 5-6: the two constants are read from import.meta.env
ReadEnv ==
  /\ startup = "loading"
  /\ \E e \in Envs : env' = e
  /\ startup' = "read"
  /\ UNCHANGED <<supabase, createCalls, notEnv>>

\* the check with the key left out of the condition
CheckEnv_UrlOnly ==
  /\ startup = "read"
  /\ startup' = IF Falsy(env.VITE_SUPABASE_URL) THEN "thrown" ELSE "checked"
  /\ UNCHANGED <<env, supabase, createCalls, notEnv>>

\* lines 8-10: if (!supabaseUrl || !supabaseKey) throw
CheckEnv ==
  /\ startup = "read"
  /\ startup' = IF Falsy(env.VITE_SUPABASE_URL) \/ Falsy(env.VITE_SUPABASE_ANON_KEY)
                 THEN "thrown" ELSE "checked"
  /\ UNCHANGED <<env, supabase, createCalls, notEnv>>

\* lines 13-19: createClient(supabaseUrl, supabaseKey, options)
CreateClient ==
  /\ startup = "checked"
  /\ createCalls' = createCalls + 1
  /\ IF Accepted(env.VITE_SUPABASE_URL, env.VITE_SUPABASE_ANON_KEY)
     THEN /\ supabase' = [created |-> TRUE, url |-> env.VITE_SUPABASE_URL,
                          key |-> env.VITE_SUPABASE_ANON_KEY]
          /\ startup' = "created"
     ELSE /\ startup' = "thrown"
          /\ UNCHANGED supabase
  /\ UNCHANGED <<env, notEnv>>

NextEnv == ReadEnv \/ CheckEnv \/ CreateClient

\* ------------------------------------------------------------------------
\* LoginPage and SignUpPage: the redirect of a logged-in user
\* (src/unnamed/part_018, pages/SignUpPage/SignUpPage.tsx)
\* ------------------------------------------------------------------------
RedirectingPages == {"LoginPage", "SignUpPage"}

\* the location: the last entry of the history stack
LGLocation == IF lgHistory = <<>> THEN "none" ELSE lgHistory[Len(lgHistory)]

LGPage == IF lgHistory = <<>> THEN "none" ELSE MatchRoute(LGLocation)

InitLG ==
  /\ lgHistory = <<>>
  /\ lgUser = NoUser
  /\ lgRendered = NoData
  /\ lgEffect = NoData
  /\ lgLastNav = "none"

\* the page routed at the path is mounted: a redirecting page renders with
\* the cached user and its effect is scheduled with that user in its closure
LGMount(path) ==
  IF MatchRoute(path) \in RedirectingPages
  THEN lgRendered' = lgUser /\ lgEffect' = lgUser
  ELSE lgRendered' = NoData /\ lgEffect' = NoData

\* a path is opened (address bar or link).  Scheduled effects are flushed
\* before the next event is rendered, so no effect is pending here.
LGOpen ==
  /\ lgEffect = NoData
  /\ Len(lgHistory) < MaxHistory
  /\ \E path \in Paths :
       /\ path # LGLocation
       /\ lgHistory' = Append(lgHistory, path)
       /\ LGMount(path)
  /\ lgLastNav' = "open"
  /\ UNCHANGED <<lgUser, notLG>>

\* the back button
LGBack ==
  /\ lgEffect = NoData
  /\ Len(lgHistory) > 1
  /\ lgHistory' = SubSeq(lgHistory, 1, Len(lgHistory) - 1)
  /\ LGMount(lgHistory[Len(lgHistory) - 1])
  /\ lgLastNav' = "back"
  /\ UNCHANGED <<lgUser, notLG>>

\* the cached user is written: by an auth event or by a result of userQuery
LGUserChanges ==
  /\ \E u \in Users \cup {NoUser} :
       /\ u # lgUser
       /\ lgUser' = u
  /\ UNCHANGED <<lgHistory, lgRendered, lgEffect, lgLastNav, notLG>>

\* the mounted page renders again because useAuth().user changed; the
\* dependency [user] of the effect changed, so the effect is scheduled
LGRender ==
  /\ lgRendered # NoData
  /\ lgRendered # lgUser
  /\ lgEffect = NoData
  /\ lgRendered' = lgUser
  /\ lgEffect' = lgUser
  /\ UNCHANGED <<lgHistory, lgUser, lgLastNav, notLG>>

\* the effect with the navigate call lost
LGEffect_NoNavigate ==
  /\ lgEffect # NoData
  /\ lgEffect' = NoData
  /\ UNCHANGED <<lgHistory, lgUser, lgRendered, lgLastNav, notLG>>

\* the effect runs: if (user) navigate("/", { replace: true })
LGEffect ==
  /\ lgEffect # NoData
  /\ IF lgEffect # NoUser
     THEN /\ lgHistory' = [lgHistory EXCEPT ![Len(lgHistory)] = ""]
          /\ LGMount("")
          /\ lgLastNav' = "redirect"
     ELSE /\ lgEffect' = NoData
          /\ UNCHANGED <<lgHistory, lgRendered, lgLastNav>>
  /\ UNCHANGED <<lgUser, notLG>>

NextLG == LGOpen \/ LGBack \/ LGUserChanges \/ LGRender \/ LGEffect

\* ------------------------------------------------------------------------
\* useTheme (app/App.tsx)
\* ------------------------------------------------------------------------
ThemeSettings == {"light", "dark", "auto"}

\* effectiveTheme with the system preference ignored for auto
effectiveTheme_AutoIsLight(th, systemDark) ==
  IF th = "auto" THEN "light" ELSE th

\* effectiveTheme: theme === 'auto' ? (isSystemDark ? 'dark' : 'light') : theme
effectiveTheme(th, systemDark) ==
  IF th = "auto" THEN (IF systemDark THEN "dark" ELSE "light") ELSE th

\* the theme toggleTheme hands to setTheme
toggleTheme(th, systemDark) ==
  IF th = "auto"
  THEN (IF systemDark THEN "light" ELSE "dark")
  ELSE (IF th = "light" THEN "dark" ELSE "light")

Toggle(from, to) == [from |-> from, to |-> to]
NoToggle == Toggle("none", "none")

\* the hook is mounted on a first visit: nothing is stored, the system
\* preference is light
InitThm ==
  /\ thmTheme = "auto"
  /\ thmSystemDark = FALSE
  /\ thmStored = NoData
  /\ thmAttr = NoData
  /\ thmLast = NoToggle
  /\ thmToggles = 0

\* setTheme(newTheme), from the menu
ThmSetTheme ==
  /\ \E th \in ThemeSettings :
       /\ thmTheme' = th
       /\ thmStored' = th
  /\ UNCHANGED <<thmSystemDark, thmAttr, thmLast, thmToggles, notThm>>

\* toggleTheme(), from the toggle button
ThmToggleTheme ==
  /\ thmToggles < MaxToggles
  /\ thmTheme' = toggleTheme(thmTheme, thmSystemDark)
  /\ thmStored' = thmTheme'
  /\ thmLast' = Toggle(effectiveTheme(thmTheme, thmSystemDark),
                       effectiveTheme(thmTheme', thmSystemDark))
  /\ thmToggles' = thmToggles + 1
  /\ UNCHANGED <<thmSystemDark, thmAttr, notThm>>

\* the media query reports a change of the system preference
ThmSystemChange ==
  /\ thmSystemDark' = ~thmSystemDark
  /\ UNCHANGED <<thmTheme, thmStored, thmAttr, thmLast, thmToggles, notThm>>

\* the effect on [effectiveTheme] sets the attribute of the html element
ThmApply ==
  /\ thmAttr # effectiveTheme(thmTheme, thmSystemDark)
  /\ thmAttr' = effectiveTheme(thmTheme, thmSystemDark)
  /\ UNCHANGED <<thmTheme, thmSystemDark, thmStored, thmLast, thmToggles, notThm>>

\* the page is loaded again: the theme state starts from the stored item
ThmReload ==
  /\ thmTheme' = IF thmStored = NoData THEN "auto" ELSE thmStored
  /\ thmAttr' = NoData
  /\ UNCHANGED <<thmSystemDark, thmStored, thmLast, thmToggles, notThm>>

NextThm == ThmSetTheme \/ ThmToggleTheme \/ ThmSystemChange \/ ThmApply \/ ThmReload

\* ------------------------------------------------------------------------
\* Calls of useSupabaseMutationBuilder (hooks/useSupabaseQueryBuilderV2.ts)
\* ------------------------------------------------------------------------
MutationTypes == {"insert", "update", "delete"}

\* ids a caller passes: none, the numbers 0 and 1, the texts "" and "7"
IdInputs ==
  {Undefined, Val("scalar", <<"0">>), Val("scalar", <<"1">>),
   Val("string", <<"">>), Val("string", <<"7">>)}

Condition(operator, column, value) ==
  [operator |-> operator, column |-> column, value |-> value]

\* where arrays a caller passes (when it passes one): empty, one condition,
\* two conditions
WhereInputs ==
  {<<>>,
   <<Condition("eq", "title", Val("string", <<"a">>))>>,
   <<Condition("eq", "title", Val("string", <<"a">>)),
     Condition("is", "deleted_at", Null)>>}

DataInputs == {Data(Val("string", <<"a">>), Undefined), Data(Undefined, Val("string", <<"t1">>))}

ParamsInputs ==
  {Params(id, FALSE, <<>>, d) : id \in IdInputs, d \in DataInputs}
  \cup {Params(id, TRUE, w, d) : id \in IdInputs, w \in WhereInputs, d \in DataInputs}

MutCall(type, params) == [type |-> type, params |-> params]
NoMutCall == MutCall("none", Params(Undefined, FALSE, <<>>, NoData_))

InitMut ==
  /\ mutCall = NoMutCall
  /\ mutPhase = "idle"
  /\ mutSent = <<>>

\* mutate(params) on a mutation of the given type
MutMutate ==
  /\ mutPhase # "called"
  /\ \E type \in MutationTypes, params \in ParamsInputs : mutCall' = MutCall(type, params)
  /\ mutPhase' = "called"
  /\ mutSent' = <<>>
  /\ UNCHANGED notMut

\* mutationFn runs: it builds the query and awaits it, or throws before
MutRun ==
  /\ mutPhase = "called"
  /\ LET cs == MutationCalls(mutCall.type, mutCall.params)
     IN  /\ mutSent' = cs
         /\ mutPhase' = IF cs = <<>> THEN "rejected" ELSE "sent"
  /\ UNCHANGED <<mutCall, notMut>>

NextMut == MutMutate \/ MutRun

\* ------------------------------------------------------------------------
\* TodoPage: paging of the list (src/unnamed/part_016)
\* ------------------------------------------------------------------------
\* the live rows whose title contains the term, newest first
PgMatching(table, term) ==
  Descending({id \in DOMAIN table :
                table[id] \in {"a", "b"} /\ (term = "" \/ table[id] = term)})

\* the response to todosQuery: the rows of the range of the page, and the
\* exact count of all matching rows
PgResponse(table, page, term) ==
  LET rows == PgMatching(table, term)
      from == page * pageSize + 1
      to == IF (page + 1) * pageSize < Len(rows) THEN (page + 1) * pageSize ELSE Len(rows)
  IN  [present |-> TRUE, totalCount |-> Len(rows),
       data |-> IF from > to THEN <<>> ELSE SubSeq(rows, from, to)]

PgNoResult == [present |-> FALSE, totalCount |-> 0, data |-> <<>>]

\* totalCount and totalPages as the page computes them from the result
PgTotalCount == IF pgResult.present THEN pgResult.totalCount ELSE 0
PgTotalPages == (PgTotalCount + pageSize - 1) \div pageSize

\* the page numbers the Pagination component offers: none when it is
\* hidden (at most one page), else first, previous, next, last and the
\* numbered items
PgOffered ==
  IF PgTotalPages <= 1 THEN {}
  ELSE 0..(PgTotalPages - 1)

\* the table holds one row more than a page shows
InitPg ==
  /\ pgTable = [id \in 1..MaxRows |->
                  IF id > pageSize + 1 THEN "none" ELSE IF id % 2 = 1 THEN "a" ELSE "b"]
  /\ pgPage = 0
  /\ pgTerm = ""
  /\ pgResult = PgNoResult

\* the list query resolves, or resolves again after refetch()
PgLoad ==
  /\ pgResult # PgResponse(pgTable, pgPage, pgTerm)
  /\ pgResult' = PgResponse(pgTable, pgPage, pgTerm)
  /\ UNCHANGED <<pgTable, pgPage, pgTerm, notPg>>

\* handlePageChange(newPage), from an item of the Pagination component;
\* the query key changes, so the new query has no data yet
PgPageChange ==
  /\ \E newPage \in PgOffered :
       /\ newPage # pgPage
       /\ pgPage' = newPage
  /\ pgResult' = PgNoResult
  /\ UNCHANGED <<pgTable, pgTerm, notPg>>

\* SearchForm onSubmit: setSearchTerm(inputValue); setCurrentPage(0)
PgSearchSubmit ==
  /\ \E term \in {"a", "b"} :
       /\ pgTerm' = term
       /\ pgResult' = IF term = pgTerm /\ pgPage = 0 THEN pgResult ELSE PgNoResult
  /\ pgPage' = 0
  /\ UNCHANGED <<pgTable, notPg>>

\* SearchForm onClear: setSearchTerm(""); setCurrentPage(0)
PgSearchClear ==
  /\ pgTerm' = ""
  /\ pgPage' = 0
  /\ pgResult' = IF pgTerm = "" /\ pgPage = 0 THEN pgResult ELSE PgNoResult
  /\ UNCHANGED <<pgTable, notPg>>

\* handleCreateTodo and the insert succeeding; onSuccess calls refetch()
PgCreate ==
  /\ \E id \in DOMAIN pgTable :
       /\ pgTable[id] = "none"
       /\ \A other \in DOMAIN pgTable : other < id => pgTable[other] # "none"
       /\ \E title \in {"a", "b"} : pgTable' = [pgTable EXCEPT ![id] = title]
  /\ UNCHANGED <<pgPage, pgTerm, pgResult, notPg>>

\* handleDeleteTodo on a listed row and the update succeeding: the row is
\* soft-deleted; onSuccess calls refetch().  currentPage is not touched.
PgSoftDelete ==
  /\ \E i \in 1..Len(pgResult.data) :
       /\ pgTable[pgResult.data[i]] \in {"a", "b"}
       /\ pgTable' = [pgTable EXCEPT ![pgResult.data[i]] = "deleted"]
  /\ UNCHANGED <<pgPage, pgTerm, pgResult, notPg>>

NextPg ==
  \/ PgLoad \/ PgPageChange \/ PgSearchSubmit \/ PgSearchClear \/ PgCreate \/ PgSoftDelete

\* ------------------------------------------------------------------------
\* useSupabaseQuery (src/front/src/shared/hooks/useSupabaseQuery.ts)
\* ------------------------------------------------------------------------
\* queryKeys.table(table): ['supabase', 'table', table]
queryKeys_table(table) == <<"supabase", "table", table>>

SQHookIds == {1, 2}
SQSelects == {Undefined, Val("string", <<"id">>)}
SQFilters == {"none", "eq(completed, true)"}
SQOptions == [table : Tables, select : SQSelects, filters : SQFilters]
SQKeys == {queryKeys_table(t) : t \in Tables}
NoHook == [table |-> "", select |-> Undefined, filters |-> "none"]
NoRows == [present |-> FALSE, columns |-> "", filters |-> "none"]

\* the use of the hook: the key it observes
SQKeyOf(options) == queryKeys_table(options.table)

\* queryFn: supabase.from(table).select(options?.select || '*'), then
\* options.filters(query) if given; the rows carry the columns and the
\* filter they were read with
SQQueryFn(options) ==
  [present |-> TRUE,
   columns |-> IF Truthy(options.select) THEN options.select.v[1] ELSE "*",
   filters |-> options.filters]

InitSQ ==
  /\ sqHooks = [h \in SQHookIds |-> NoHook]
  /\ sqCache = [k \in SQKeys |-> NoRows]
  /\ sqFetching = [k \in SQKeys |-> NoHook]

\* a component calling useSupabaseQuery(table, options) mounts: it observes
\* the query of its key, and a fetch with its queryFn starts unless one is
\* already in flight for that key
SQMount ==
  /\ \E h \in SQHookIds, options \in SQOptions :
       /\ sqHooks[h] = NoHook
       /\ sqHooks' = [sqHooks EXCEPT ![h] = options]
       /\ sqFetching' = IF sqFetching[SQKeyOf(options)] = NoHook
                           THEN [sqFetching EXCEPT ![SQKeyOf(options)] = options]
                           ELSE sqFetching
  /\ UNCHANGED <<sqCache, notSQ>>

\* the component unmounts; the cached data stays for the gc time
SQUnmount ==
  /\ \E h \in SQHookIds :
       /\ sqHooks[h] # NoHook
       /\ sqHooks' = [sqHooks EXCEPT ![h] = NoHook]
  /\ UNCHANGED <<sqCache, sqFetching, notSQ>>

\* the fetch of a key resolves: its rows become the data of the query
SQFetchResolves ==
  /\ \E k \in SQKeys :
       /\ sqFetching[k] # NoHook
       /\ sqCache' = [sqCache EXCEPT ![k] = SQQueryFn(sqFetching[k])]
       /\ sqFetching' = [sqFetching EXCEPT ![k] = NoHook]
  /\ UNCHANGED <<sqHooks, notSQ>>

\* the data a mounted hook returns
SQData(h) == sqCache[SQKeyOf(sqHooks[h])]

NextSQ == SQMount \/ SQUnmount \/ SQFetchResolves

\* ------------------------------------------------------------------------
\* SupabaseQueryBuilder objects and their arrays as heap objects, so that
\* two builders can hold the same array
\* ------------------------------------------------------------------------
\* the builder as the value its fields hold
HDeref(hb, heap) ==
  [hb EXCEPT !.whereConditions = heap[hb.whereConditions],
             !.sortConditions = heap[hb.sortConditions]]

\* the result of a method: the heap after it and the builder it returns
HResult(heap, hb, isNew) == [heap |-> heap, builder |-> hb, isNew |-> isNew]

\* clone() that hands over the arrays of the receiver
HClone_SharesArrays(heap, hb) == HResult(heap, hb, TRUE)

\* clone(): a new builder; [...this.whereConditions] and
\* [...this.sortConditions] are new arrays with the same items, the search
\* and pagination objects are copied, the other fields are assigned
HClone(heap, hb) ==
  HResult(heap \o <<heap[hb.whereConditions], heap[hb.sortConditions]>>,
          [hb EXCEPT !.whereConditions = Len(heap) + 1, !.sortConditions = Len(heap) + 2],
          TRUE)

HSet(r, field, value) == [r EXCEPT !.builder[field] = value]

\* array.push(item) on the array a field of the builder refers to
HPush(r, field, item) == [r EXCEPT !.heap[r.builder[field]] = Append(@, item)]

HSelectOp(heap, hb, columns) == HSet(HClone(heap, hb), "selectedColumns", columns)

HWhereOp(heap, hb, column, operator, value) ==
  IF operator = "in" /\ IsArray(value)
  THEN HPush(HClone(heap, hb), "whereConditions",
             WhereObject("in", column, Undefined, value, Undefined))
  ELSE HPush(HClone(heap, hb), "whereConditions",
             WhereObject(operator, column, value, Undefined, Undefined))

HSearchOp(heap, hb, columns, term, caseSensitive) ==
  IF Trim(term) = <<>> THEN HResult(heap, hb, FALSE)
  ELSE HSet(HClone(heap, hb), "searchCondition",
            [present |-> TRUE, columns |-> columns, term |-> Trim(term),
             caseSensitive |-> caseSensitive])

HSortOp(heap, hb, column, direction) ==
  HPush(HClone(heap, hb), "sortConditions",
        [column |-> column, ascending |-> (direction = "asc")])

HPaginateOp(heap, hb, condition) ==
  HSet(HClone(heap, hb), "paginationCondition",
       [present |-> TRUE, page |-> condition.page, size |-> condition.size])

HSingleOp(heap, hb) == HSet(HClone(heap, hb), "singleMode", TRUE)
HCountOp(heap, hb) == HSet(HClone(heap, hb), "countMode", TRUE)
HWithCountOp(heap, hb) == HSet(HClone(heap, hb), "withCountMode", TRUE)

\* createSupabaseQuery(table): new SupabaseQueryBuilder(table)
InitHp ==
  /\ hpArrays = <<<<>>, <<>>>>
  /\ hpBuilders = <<[NewBuilder(Table) EXCEPT !.whereConditions = 1, !.sortConditions = 2]>>
  /\ hpLast = 1

HReceivers == IF Len(hpBuilders) < MaxBuilders THEN 1..Len(hpBuilders) ELSE {}

\* the caller keeps the builder the method returned
HReturns(receiver, r) ==
  /\ hpArrays' = r.heap
  /\ hpBuilders' = IF r.isNew THEN Append(hpBuilders, r.builder) ELSE hpBuilders
  /\ hpLast' = IF r.isNew THEN Len(hpBuilders) + 1 ELSE receiver
  /\ UNCHANGED notHp

HSelect ==
  \E i \in HReceivers : HReturns(i, HSelectOp(hpArrays, hpBuilders[i], "id, title"))

HWhere ==
  \E i \in HReceivers, operator \in {"eq", "in"} :
    \E value \in ArgsFor(operator) :
      HReturns(i, HWhereOp(hpArrays, hpBuilders[i], "title", operator, value))

HSearch ==
  \E i \in HReceivers, term \in Terms :
    HReturns(i, HSearchOp(hpArrays, hpBuilders[i], <<"title">>, term, FALSE))

HSort ==
  \E i \in HReceivers, direction \in Directions :
    HReturns(i, HSortOp(hpArrays, hpBuilders[i], "title", direction))

HPaginate ==
  \E i \in HReceivers, size \in PageSizes :
    HReturns(i, HPaginateOp(hpArrays, hpBuilders[i], [page |-> 1, size |-> size]))

HSingle == \E i \in HReceivers : HReturns(i, HSingleOp(hpArrays, hpBuilders[i]))

HCount == \E i \in HReceivers : HReturns(i, HCountOp(hpArrays, hpBuilders[i]))

HWithCount == \E i \in HReceivers : HReturns(i, HWithCountOp(hpArrays, hpBuilders[i]))

\* what a builder is observed by: its query key and the calls of execute()
HQueryKey(i) == getQueryKey(HDeref(hpBuilders[i], hpArrays))
HExecuteCalls(i) == ExecuteCalls(HDeref(hpBuilders[i], hpArrays))

NextHp ==
  \/ HSelect \/ HWhere \/ HSearch \/ HSort \/ HPaginate \/ HSingle \/ HCount \/ HWithCount

\* ------------------------------------------------------------------------
\* useAppStore: notifications and their removal timeouts, with time
\* ------------------------------------------------------------------------
\* setTimeout(..., 5000) in addNotification
AutoRemoveMs == 5000

\* the steps in which time is observed to pass
TickSteps == {1000, 2500}

NtNoRemoval == [id |-> 0, before |-> <<>>, after |-> <<>>, at |-> 0]

InitNt ==
  /\ ntNow = 0
  /\ ntNotifications = <<>>
  /\ ntTimers = {}
  /\ ntNextId = 1
  /\ ntLast = NtNoRemoval

\* addNotification(notification): id and timestamp added, the notification
\* appended, and a timeout of 5000 ms set that removes this id
NtAddNotification ==
  /\ ntNextId <= MaxNotifications
  /\ ntNow + AutoRemoveMs <= MaxSeconds * 1000
  /\ \E type \in NotificationTypes :
       ntNotifications' =
         Append(ntNotifications, [id |-> ntNextId, type |-> type, timestamp |-> ntNow])
  /\ ntTimers' = ntTimers \cup {[id |-> ntNextId, due |-> ntNow + AutoRemoveMs]}
  /\ ntNextId' = ntNextId + 1
  /\ UNCHANGED <<ntNow, ntLast, notNt>>

\* removeNotification(id), called by a component
NtRemoveNotification ==
  /\ \E id \in 1..MaxNotifications : ntNotifications' = WithoutId(ntNotifications, id)
  /\ UNCHANGED <<ntNow, ntTimers, ntNextId, ntLast, notNt>>

NtClearNotifications ==
  /\ ntNotifications' = <<>>
  /\ UNCHANGED <<ntNow, ntTimers, ntNextId, ntLast, notNt>>

\* a timeout callback that empties the list
NtTimerFires_ClearsAll ==
  /\ \E timer \in ntTimers :
       /\ timer.due <= ntNow
       /\ ntNotifications' = <<>>
       /\ ntTimers' = ntTimers \ {timer}
       /\ ntLast' = [id |-> timer.id, before |-> ntNotifications, after |-> <<>>,
                     at |-> ntNow]
  /\ UNCHANGED <<ntNow, ntNextId, notNt>>

\* a timeout of addNotification is due: get().removeNotification(id)
NtTimerFires ==
  /\ \E timer \in ntTimers :
       /\ timer.due <= ntNow
       /\ ntNotifications' = WithoutId(ntNotifications, timer.id)
       /\ ntTimers' = ntTimers \ {timer}
       /\ ntLast' = [id |-> timer.id, before |-> ntNotifications,
                     after |-> WithoutId(ntNotifications, timer.id), at |-> ntNow]
  /\ UNCHANGED <<ntNow, ntNextId, notNt>>

\* the page is loaded again: notifications are not part of the persisted
\* snapshot, and the pending timeouts are gone
NtReload ==
  /\ ntNotifications' = <<>>
  /\ ntTimers' = {}
  /\ UNCHANGED <<ntNow, ntNextId, ntLast, notNt>>

\* time passes, up to the next timeout that is due
NtTick ==
  /\ \E t \in {ntNow + d : d \in TickSteps} \cup {timer.due : timer \in ntTimers} :
       /\ t > ntNow
       /\ t <= MaxSeconds * 1000
       /\ \A timer \in ntTimers : t <= timer.due
       /\ ntNow' = t
  /\ UNCHANGED <<ntNotifications, ntTimers, ntNextId, ntLast, notNt>>

NextNt ==
  \/ NtAddNotification \/ NtRemoveNotification \/ NtClearNotifications
  \/ NtTimerFires \/ NtReload \/ NtTick

NtListed(id) == \E i \in 1..Len(ntNotifications) : ntNotifications[i].id = id

\* ------------------------------------------------------------------------
\* Pagination (components/molecules/Pagination/Pagination.tsx)
\* ------------------------------------------------------------------------
PnMin(a, b) == IF a < b THEN a ELSE b
PnMax(a, b) == IF a > b THEN a ELSE b

\* Array.from({ length: endPage - startPage + 1 }, (_, i) => startPage + i)
PnRange(startPage, endPage) ==
  IF endPage < startPage THEN <<>>
  ELSE [i \in 1..(endPage - startPage + 1) |-> startPage + i - 1]

\* getPageNumbers without the correction of startPage
getPageNumbers_NoShift(current, total, maxPageNumbers) ==
  LET maxPages == PnMin(maxPageNumbers, total)
      halfMax == maxPages \div 2
      startPage == PnMax(0, current - halfMax)
      endPage == PnMin(total - 1, startPage + maxPages - 1)
  IN  PnRange(startPage, endPage)

getPageNumbers(current, total, maxPageNumbers) ==
  LET maxPages == PnMin(maxPageNumbers, total)
      halfMax == maxPages \div 2
      startPage == PnMax(0, current - halfMax)
      endPage == PnMin(total - 1, startPage + maxPages - 1)
      shifted == IF endPage - startPage + 1 < maxPages
                 THEN PnMax(0, endPage - maxPages + 1)
                 ELSE startPage
  IN  PnRange(shifted, endPage)

\* the render: null when there is at most one page
PnRender(current, total, maxPageNumbers) ==
  IF total <= 1 THEN <<>> ELSE getPageNumbers(current, total, maxPageNumbers)

InitPn ==
  /\ pnTotalPages = 0
  /\ pnMaxPageNumbers = 1
  /\ pnCurrentPage = 0
  /\ pnNumbers = <<>>

\* the parent renders the component with new props
PnProps ==
  /\ \E total \in 0..MaxTotalPages, maxPageNumbers \in 1..MaxPageNumbers :
       \E current \in 0..PnMax(total - 1, 0) :
          /\ pnTotalPages' = total
          /\ pnMaxPageNumbers' = maxPageNumbers
          /\ pnCurrentPage' = current
          /\ pnNumbers' = PnRender(current, total, maxPageNumbers)
  /\ UNCHANGED notPn

\* an enabled item is clicked: first, previous, a number, next or last;
\* onPageChange(newPage) makes the parent render with that currentPage
PnClick ==
  /\ pnNumbers # <<>>
  /\ \E newPage \in
         (IF pnCurrentPage > 0 THEN {0, pnCurrentPage - 1} ELSE {})
         \cup {pnNumbers[i] : i \in 1..Len(pnNumbers)}
         \cup (IF pnCurrentPage < pnTotalPages - 1
               THEN {pnCurrentPage + 1, pnTotalPages - 1} ELSE {}) :
       /\ pnCurrentPage' = newPage
       /\ pnNumbers' = PnRender(newPage, pnTotalPages, pnMaxPageNumbers)
  /\ UNCHANGED <<pnTotalPages, pnMaxPageNumbers, notPn>>

NextPn == PnProps \/ PnClick

\* ------------------------------------------------------------------------
\* Pagination helpers (src/unnamed/part_004)
\* ------------------------------------------------------------------------
PaginationParams(pageIndex, size) == [page |-> pageIndex, pageSize |-> size]

\* a count of the response: null, or a number
CountNull == [isNull |-> TRUE, n |-> 0]
CountOf(n) == [isNull |-> FALSE, n |-> n]

\* Math.ceil(a / b) for integers a >= 0 and b >= 1
Ceil(a, b) == IF a % b = 0 THEN a \div b ELSE (a \div b) + 1

createPaginationQuery(params) ==
  [from |-> params.page * params.pageSize,
   to |-> params.page * params.pageSize + params.pageSize - 1]

\* createPaginationResult with hasNextPage: page < totalPages
createPaginationResult_OffByOne(data, cnt, params) ==
  LET total == IF cnt.isNull \/ cnt.n = 0 THEN 0 ELSE cnt.n
      pages == Ceil(total, params.pageSize)
  IN  [present |-> TRUE, data |-> data, totalCount |-> total, totalPages |-> pages,
       currentPage |-> params.page,
       hasNextPage |-> params.page < pages,
       hasPreviousPage |-> params.page > 0]

createPaginationResult(data, cnt, params) ==
  LET total == IF cnt.isNull \/ cnt.n = 0 THEN 0 ELSE cnt.n
      pages == Ceil(total, params.pageSize)
  IN  [present |-> TRUE, data |-> data, totalCount |-> total, totalPages |-> pages,
       currentPage |-> params.page,
       hasNextPage |-> params.page < pages - 1,
       hasPreviousPage |-> params.page > 0]

PrNoResult ==
  [present |-> FALSE, data |-> <<>>, totalCount |-> 0, totalPages |-> 0, currentPage |-> 0,
   hasNextPage |-> FALSE, hasPreviousPage |-> FALSE]

\* range(from, to) over a table of n rows, numbered from 0: the rows of
\* the table whose number lies in the range
PrRows(n, range) ==
  LET last == IF range.to < n - 1 THEN range.to ELSE n - 1
  IN  IF last < range.from THEN <<>>
      ELSE [i \in 1..(last - range.from + 1) |-> range.from + i - 1]

InitPr ==
  /\ prParams = PaginationParams(0, 1)
  /\ prRange = createPaginationQuery(PaginationParams(0, 1))
  /\ prCount = CountNull
  /\ prResult = PrNoResult

\* a caller asks for a page: createPaginationQuery(params)
PrQuery ==
  /\ \E pageIndex \in 0..MaxPage, size \in 1..MaxPageSize :
       /\ prParams' = PaginationParams(pageIndex, size)
       /\ prRange' = createPaginationQuery(PaginationParams(pageIndex, size))
  /\ prCount' = CountNull
  /\ prResult' = PrNoResult
  /\ UNCHANGED notPr

\* the response arrives, from a table of n rows, with or without a count:
\* createPaginationResult(data, count, params)
PrResponse ==
  /\ ~prResult.present
  /\ \E n \in 0..MaxCount, counted \in BOOLEAN :
       LET cnt == IF counted THEN CountOf(n) ELSE CountNull
       IN  /\ prCount' = cnt
           /\ prResult' = createPaginationResult(PrRows(n, prRange), cnt, prParams)
  /\ UNCHANGED <<prParams, prRange, notPr>>

NextPr == PrQuery \/ PrResponse

InitExt ==
  InitLG /\ InitThm /\ InitMut /\ InitPg /\ InitSQ /\ InitHp /\ InitNt /\ InitPn /\ InitPr

InitSvc == InitApi /\ InitUQ /\ InitStore /\ InitEnv /\ InitExt

InitUtil == InitClock /\ InitAD /\ InitTH /\ InitDB /\ InitKey /\ InitSvc

Init == InitQB /\ InitApp /\ InitTodo /\ InitUtil

\* handleRefresh: refetch()
Refresh ==
  /\ listFetch' = SendList(currentPage, searchTerm, softDeleted)
  /\ listFetch' # listFetch
  /\ UNCHANGED <<todoTable, currentPage, searchTerm, result, createTodo, updateTodo,
                 softDeleted, sentMethods>>
  /\ UNCHANGED notTodo

\* the backend evaluates the list query on the table as it is now
ServeList ==
  /\ listFetch.phase = "sent"
  /\ LET r == RemoteSelect(todoTable, listFetch.calls)
     IN listFetch' = [listFetch EXCEPT !.phase = "served", !.rows = r.rows,
                                       !.totalCount = r.totalCount]
  /\ UNCHANGED <<todoTable, currentPage, searchTerm, result, createTodo, updateTodo,
                 softDeleted, sentMethods>>
  /\ UNCHANGED notTodo

\* the answer arrives: {data, totalCount} becomes the query's data
ListResolve ==
  /\ listFetch.phase = "served"
  /\ result' = Result(TRUE, listFetch.rows, listFetch.totalCount, listFetch.deletedAtSend)
  /\ listFetch' = NoListFetch
  /\ UNCHANGED <<todoTable, currentPage, searchTerm, createTodo, updateTodo, softDeleted,
                 sentMethods>>
  /\ UNCHANGED notTodo

\* SearchForm onSubmit: setSearchTerm(inputValue); setCurrentPage(0)
SearchSubmit ==
  /\ ~(result.present = FALSE /\ listFetch.phase # "idle")
  /\ ~updateTodo.pending /\ ~createTodo.pending
  /\ \E input \in SearchInputs :
       /\ searchTerm' = input
       /\ currentPage' = 0
       /\ <<input, 0>> # <<searchTerm, currentPage>>
       /\ listFetch' = SendList(0, input, softDeleted)
  /\ result' = NoResult
  /\ UNCHANGED <<todoTable, createTodo, updateTodo, softDeleted, sentMethods>>
  /\ UNCHANGED notTodo

\* SearchForm onClear: setSearchTerm(""); setCurrentPage(0)
SearchClear ==
  /\ ~(result.present = FALSE /\ listFetch.phase # "idle")
  /\ ~updateTodo.pending /\ ~createTodo.pending
  /\ <<searchTerm, currentPage>> # <<<<>>, 0>>
  /\ searchTerm' = <<>>
  /\ currentPage' = 0
  /\ listFetch' = SendList(0, <<>>, softDeleted)
  /\ result' = NoResult
  /\ UNCHANGED <<todoTable, createTodo, updateTodo, softDeleted, sentMethods>>
  /\ UNCHANGED notTodo

\* handleCreateTodo: createTodo.mutate({data: {title, ...}})
HandleCreateTodo ==
  /\ ~createTodo.pending
  /\ Len(todoTable) < MaxTodos
  /\ \E title \in Titles :
       LET params == Params(Undefined, FALSE, <<>>, Data(Val("string", Trim(title)), Undefined))
           cs == MutationCalls("insert", params)
       IN /\ Trim(title) # <<>>
          /\ createTodo' = Mutation(TRUE, cs, params.data)
          /\ sentMethods' = sentMethods \cup MethodsOf(cs)
  /\ UNCHANGED <<todoTable, currentPage, searchTerm, listFetch, result, updateTodo, softDeleted>>
  /\ UNCHANGED notTodo

\* the insert succeeds: onSuccess invalidates the table's queries and refetches
CreateSucceeds ==
  /\ createTodo.pending
  /\ todoTable' = RemoteMutate(todoTable, createTodo.calls, createTodo.data)
  /\ createTodo' = NoMutation
  /\ listFetch' = SendList(currentPage, searchTerm, softDeleted)
  /\ UNCHANGED <<currentPage, searchTerm, result, updateTodo, softDeleted, sentMethods>>
  /\ UNCHANGED notTodo

\* the insert fails: onError alerts
CreateFails ==
  /\ createTodo.pending
  /\ createTodo' = NoMutation
  /\ UNCHANGED <<todoTable, currentPage, searchTerm, listFetch, result, updateTodo,
                 softDeleted, sentMethods>>
  /\ UNCHANGED notTodo

\* handleDeleteTodo(todo) on a row of the displayed list, confirmed:
\* updateTodo.mutate({id: todo.id.toString(), data: {deleted_at: now, ...}})
HandleDeleteTodo ==
  /\ ~updateTodo.pending
  /\ \E k \in 1..Len(result.rows) :
       LET todo == result.rows[k]
           params == Params(IdToString(todo.id), FALSE, <<>>, Data(Undefined, Timestamp))
           cs == MutationCalls("update", params)
       IN /\ todo.deleted_at = Null
          /\ updateTodo' = Mutation(TRUE, cs, params.data)
          /\ sentMethods' = sentMethods \cup MethodsOf(cs)
  /\ UNCHANGED <<todoTable, currentPage, searchTerm, listFetch, result, createTodo, softDeleted>>
  /\ UNCHANGED notTodo

\* handleEditTodo(todo) with a new title
HandleEditTodo ==
  /\ ~updateTodo.pending
  /\ \E k \in 1..Len(result.rows), newTitle \in Titles :
       LET todo == result.rows[k]
           params == Params(IdToString(todo.id), FALSE, <<>>,
                            Data(Val("string", Trim(newTitle)), Undefined))
           cs == MutationCalls("update", params)
       IN /\ todo.deleted_at = Null
          /\ Trim(newTitle) # todo.title
          /\ updateTodo' = Mutation(TRUE, cs, params.data)
          /\ sentMethods' = sentMethods \cup MethodsOf(cs)
  /\ UNCHANGED <<todoTable, currentPage, searchTerm, listFetch, result, createTodo, softDeleted>>
  /\ UNCHANGED notTodo

\* the update succeeds: onSuccess invalidates the table's queries and refetches
UpdateSucceeds ==
  /\ updateTodo.pending
  /\ todoTable' = RemoteMutate(todoTable, updateTodo.calls, updateTodo.data)
  /\ softDeleted' = IF updateTodo.data.deleted_at # Undefined
                    THEN softDeleted \cup Matching(todoTable, updateTodo.calls)
                    ELSE softDeleted
  /\ updateTodo' = NoMutation
  /\ listFetch' = SendList(currentPage, searchTerm, softDeleted')
  /\ UNCHANGED <<currentPage, searchTerm, result, createTodo, sentMethods>>
  /\ UNCHANGED notTodo

\* the update fails: onError alerts
UpdateFails ==
  /\ updateTodo.pending
  /\ updateTodo' = NoMutation
  /\ UNCHANGED <<todoTable, currentPage, searchTerm, listFetch, result, createTodo,
                 softDeleted, sentMethods>>
  /\ UNCHANGED notTodo

NextTodo ==
  \/ Refresh \/ ServeList \/ ListResolve \/ SearchSubmit \/ SearchClear
  \/ HandleCreateTodo \/ CreateSucceeds \/ CreateFails \/ HandleDeleteTodo
  \/ HandleEditTodo \/ UpdateSucceeds \/ UpdateFails

SpecQB == Init /\ [][NextQB]_vars

SpecApp == Init /\ [][NextApp]_vars

SpecTodo == Init /\ [][NextTodo]_vars

SpecAD == Init /\ [][NextAD]_vars

SpecTH == Init /\ [][NextTH]_vars

SpecDB == Init /\ [][NextDB]_vars

SpecKey == Init /\ [][NextKey]_vars

SpecApi == Init /\ [][NextApi]_vars

SpecUQ == Init /\ [][NextUQ]_vars

SpecStore == Init /\ [][NextStore]_vars

SpecEnv == Init /\ [][NextEnv]_vars

SpecThm == Init /\ [][NextThm]_vars

SpecMut == Init /\ [][NextMut]_vars

SpecPg == Init /\ [][NextPg]_vars

SpecSQ == Init /\ [][NextSQ]_vars

SpecHp == Init /\ [][NextHp]_vars

SpecPn == Init /\ [][NextPn]_vars

SpecPr == Init /\ [][NextPr]_vars

\* timeouts fire when they are due, and time does not stop
SpecNt == Init /\ [][NextNt]_vars /\ WF_vars(NtTimerFires) /\ WF_vars(NtTick)

\* scheduled renders and effects are always run
SpecLG == Init /\ [][NextLG]_vars /\ WF_vars(LGRender) /\ WF_vars(LGEffect)

\* ------------------------------------------------------------------------
\* Properties of the query builder
\* ------------------------------------------------------------------------
Count(S) == Cardinality(S)

\* C2: every predicate added with where(column, op, arg) makes execute()
\* call the remote method named op exactly once with that column and that
\* same argument (a predicate added k times is called k times).
C2_WherePassesArgument ==
  qphase # "building" =>
    \A i \in 1..Len(hWhere) :
      Count({j \in 1..Len(calls) :
               calls[j] = Call(hWhere[i].op, hWhere[i].column, hWhere[i].arg, -1, -1)})
      = Count({k \in 1..Len(hWhere) : hWhere[k] = hWhere[i]})

\* C3: a backend error without a `code` field reaches the caller of execute()
\* as an ApiException with status 500 and code UNKNOWN_ERROR.
C3_UnknownErrorIs500 ==
  (qphase = "done" /\ ~response.error.isNone /\ ~response.error.hasCode) =>
    /\ outcome.kind = "thrown"
    /\ outcome.exc.isApi
    /\ outcome.exc.status = 500
    /\ outcome.exc.code = "UNKNOWN_ERROR"

StatusOfDbCode(code) ==
  IF code = "23505" THEN 409 ELSE IF code = "42501" THEN 403 ELSE 400

\* C4: a table-operation error reported by execute() has status 409 for
\* database code 23505, 403 for 42501 and 400 for 23503 and 23514, and the
\* reported exception carries the original database code.
C4_ConstraintCodesMapped ==
  (qphase = "done" /\ ~response.error.isNone
     /\ response.error.hasCode
     /\ response.error.code \in {"23505", "42501", "23503", "23514"}) =>
    /\ outcome.kind = "thrown"
    /\ outcome.exc.isApi
    /\ outcome.exc.status = StatusOfDbCode(response.error.code)
    /\ outcome.exc.code = response.error.code

\* a query that resolved with a unique-violation error was reported as 409
C4_Witness ==
  /\ qphase = "done"
  /\ response.delivery = "resolved"
  /\ response.error.code = "23505"
  /\ outcome.kind = "thrown"
  /\ outcome.exc.status = 409

CallTag(c) ==
  [method |-> c.method,
   column |-> IF c.method \in {"select", "or"} THEN "" ELSE c.column,
   from |-> c.from, to |-> c.to]

Tag(method, column, from, to) == [method |-> method, column |-> column, from |-> from, to |-> to]

ExpectedReplay ==
  <<Tag("select", "", -1, -1)>>
  \o [i \in 1..Len(hWhere) |-> Tag(hWhere[i].op, hWhere[i].column, -1, -1)]
  \o (IF hSearch.present THEN <<Tag("or", "", -1, -1)>> ELSE <<>>)
  \o [i \in 1..Len(hSorts) |-> Tag("order", hSorts[i].column, -1, -1)]
  \o (IF hPage.present
      THEN <<Tag("range", "", hPage.page * hPage.size,
                 hPage.page * hPage.size + hPage.size - 1)>>
      ELSE <<>>)
  \o (IF hSingle THEN <<Tag("single", "", -1, -1)>> ELSE <<>>)

C6_RejectedSignInThrows ==
  signInCall = "rejected" => (signInOutcome.kind = "thrown" /\ signInOutcome.exc.isApi)

\* C7: when the sign-out request has failed the UI is logged out all the
\* same: the cached user is null and the header shows the login controls.
C7_FailedSignOutLogsOut ==
  signOutState = "error" => (cachedUser = NoUser /\ HeaderView = "login")

\* C8: at most one auth-state-change listener is subscribed at any time.
C8_SingleListener == Cardinality(listeners) <= 1

ExpectedPage(segment) ==
  CASE segment = "" -> "HomePage"
    [] segment = "about" -> "AboutPage"
    [] segment = "todos" -> "TodoPage"
    [] segment = "login" -> "LoginPage"
    [] segment = "signup" -> "SignUpPage"
    [] OTHER -> "NotFoundPage"

\* C10: /, /about, /todos, /login and /signup each render their own page
\* and every other path renders the not-found page.
C10_RouteTable == booted => shownPage = ExpectedPage(location)

\* C11: signOutWithRedirect(target) navigates to target only from a sign-out
\* that has completed successfully; when the sign-out fails the call rethrows
\* the error and the location stays as it is.
C11_RedirectOnlyAfterSignOut ==
  [][ /\ (redirectCall'.phase = "navigated" /\ redirectCall.phase # "navigated") =>
           (signOutState = "resolved" /\ location' = redirectCall.target)
      /\ (signOutState = "pending" /\ signOutState' = "error") =>
           (redirectCall'.phase = "rethrown" /\ location' = location)
    ]_vars

\* a call that navigated home from another page after the session was removed
C11_Witness ==
  /\ redirectCall.phase = "navigated"
  /\ location = redirectCall.target
  /\ session = NoUser
  /\ cachedUser = NoUser

\* ------------------------------------------------------------------------
\* Properties of the todo page
\* ------------------------------------------------------------------------
RowIds(rows) == {rows[k].id : k \in 1..Len(rows)}

\* C9: a todo the user has deleted on the page is still a row of the table,
\* with deleted_at set; the page never calls the remote delete; and no list
\* answer whose request was sent after the deletion succeeded holds the row.
C9_SoftDeleteKeepsRow ==
  /\ \A id \in softDeleted :
       /\ id \in 1..Len(todoTable)
       /\ todoTable[id].present
       /\ todoTable[id].deleted_at # Null
  /\ "delete" \notin sentMethods
  /\ listFetch.phase = "served" => RowIds(listFetch.rows) \cap listFetch.deletedAtSend = {}
  /\ result.present => RowIds(result.rows) \cap result.deletedAtSend = {}

\* the list shown was fetched after a deletion and still has another row
C9_Witness ==
  /\ result.present
  /\ result.deletedAtSend # {}
  /\ result.rows # <<>>
  /\ \E id \in result.deletedAtSend : todoTable[id].deleted_at = Timestamp

\* ------------------------------------------------------------------------
\* Properties of the timing helpers
\* ------------------------------------------------------------------------
\* the entries of a sequence of times are at least d apart
Spaced(times, d) == \A i \in 1..Len(times) : \A j \in 1..Len(times) :
                      i < j => times[j] - times[i] >= d

\* C12: callback of useActionDebounce(callback, delay) runs at most once per
\* delay window: two runs are never less than delay apart, also when the
\* invocations arrive before the component has re-rendered.
C12_OncePerDelayWindow == Spaced(adRuns, Delay)

Times(runs) == [k \in 1..Len(runs) |-> runs[k].t]

\* C13: the first call of a throttled function executes func at once, and
\* any two executions of func are at least delay apart.
C13_ThrottleSpacing ==
  /\ thFirstCall # NoTimer => (thRuns # <<>> /\ thRuns[1].t = thFirstCall)
  /\ Spaced(Times(thRuns), Delay)

\* call i ends a run when no call follows it less than delay later
RunEndsByGap(i) == i = Len(dbCalls) \/ dbCalls[i + 1].t - dbCalls[i].t >= Delay

\* call i ends a run when no call follows it while its timeout is pending
RunEndsByTimeout(i) == i = Len(dbCalls) \/ ~dbCalls[i + 1].pending

ExecutionOf(i) == Execution(dbCalls[i].t + Delay, dbCalls[i].args)

\* C14 as stated: every run of calls that follow each other by less than
\* delay makes func execute exactly once, with the arguments of the last call
\* of the run, delay after that call; func executes for nothing else.
C14_DebounceRunsOnce_Stated ==
  /\ \A i \in 1..Len(dbCalls) :
       (RunEndsByGap(i) /\ dbCalls[i].t + Delay < now) =>
         Count({k \in 1..Len(dbRuns) : dbRuns[k] = ExecutionOf(i)}) = 1
  /\ \A k \in 1..Len(dbRuns) :
       \E i \in 1..Len(dbCalls) : RunEndsByGap(i) /\ dbRuns[k] = ExecutionOf(i)

\* C14: every run of calls, each made while the timeout set by the call
\* before it is still pending, makes func execute exactly once, with the
\* arguments of the last call of the run, delay after that call; func
\* executes for nothing else.
C14_DebounceRunsOnce ==
  /\ \A i \in 1..Len(dbCalls) :
       (RunEndsByTimeout(i) /\ dbCalls[i].t + Delay < now) =>
         Count({k \in 1..Len(dbRuns) : dbRuns[k] = ExecutionOf(i)}) = 1
  /\ \A k \in 1..Len(dbRuns) :
       \E i \in 1..Len(dbCalls) : RunEndsByTimeout(i) /\ dbRuns[k] = ExecutionOf(i)

\* two calls less than delay apart with different arguments, executed once
\* with the arguments of the second
C14_Witness ==
  /\ Len(dbCalls) = 2
  /\ dbCalls[2].pending
  /\ dbCalls[2].t > dbCalls[1].t
  /\ dbCalls[2].t - dbCalls[1].t < Delay
  /\ dbCalls[1].args # dbCalls[2].args
  /\ dbRuns = <<ExecutionOf(2)>>
  /\ now > dbCalls[2].t + Delay

SettledWithError ==
  /\ apiOutcome.kind # "none"
  /\ ~apiRequest.request.rejects
  /\ ~apiRequest.request.error.isNone

\* C16: when the request resolves with an error that carries a database
\* code, apiWrapper throws an ApiException that keeps the code, the details
\* and the hint of that error.
C16_DbErrorKeepsCode ==
  (SettledWithError /\ apiRequest.request.error.hasCode) =>
    /\ apiOutcome.kind = "thrown"
    /\ apiOutcome.exc.code = apiRequest.request.error.code
    /\ apiOutcome.exc.details = apiRequest.request.error.details
    /\ apiOutcome.exc.hint = apiRequest.request.error.hint

\* the status the documentation gives for the message of an authentication error
StatusOfAuthMessage(message) ==
  CASE message = "invalid_credentials" -> 401
    [] message = "email_not_confirmed" -> 422
    [] message = "signup_disabled" -> 403
    [] message = "rate_limit_exceeded" -> 429
    [] OTHER -> 400

\* C17: when the request resolves with an authentication error, apiWrapper
\* throws an ApiException whose status is 401, 422, 403 or 429 for the four
\* keyed messages and 400 for every other message.
C17_AuthStatus ==
  (SettledWithError /\ apiRequest.request.error \in AuthErrors) =>
    /\ apiOutcome.kind = "thrown"
    /\ apiOutcome.exc.status = StatusOfAuthMessage(apiRequest.request.error.message)

\* C18: a fetch of the current user is never retried after an error of
\* status 401 or 403, and is retried at most 2 times.
C18_RetryPolicy ==
  /\ Len(uqRetries) <= 2
  /\ \A i \in 1..Len(uqRetries) : uqRetries[i] \notin {401, 403}

\* a fetch whose backend call threw an error of status 401 has settled
C18_Witness ==
  /\ uqStatus \in {"success", "error"}
  /\ uqResponse # <<>>
  /\ uqResponse[Len(uqResponse)].kind = "rejects"
  /\ uqResponse[Len(uqResponse)].status = 401
  /\ uqRetries = <<>>

\* C19: whenever a snapshot is stored under 'app-store', it contains exactly
\* the keys theme and sidebarOpen, with the values the store holds;
\* notifications and loading are not in it.
C19_PersistedKeys ==
  storage["app-store"] # NoItem =>
    /\ storage["app-store"].keys = {"theme", "sidebarOpen"}
    /\ storage["app-store"].theme = theme
    /\ storage["app-store"].sidebarOpen = sidebarOpen
    /\ storage["app-store"].loading = FALSE
    /\ storage["app-store"].notifications = <<>>

\* a snapshot is stored while the store holds a notification and is loading
C19_Witness ==
  /\ storage["app-store"] # NoItem
  /\ notifications # <<>>
  /\ loading
  /\ theme = "dark"

\* the backend URL or the backend public key is not defined
UrlOrKeyAbsent ==
  /\ startup # "loading"
  /\ env.VITE_SUPABASE_URL = "undefined" \/ env.VITE_SUPABASE_ANON_KEY = "undefined"

\* C20: when the backend URL or the backend public key is absent, startup
\* goes from reading the configuration to the throw: createClient is never
\* called and no client exists.
C20_ThrowsBeforeClient ==
  UrlOrKeyAbsent =>
    /\ startup \in {"read", "thrown"}
    /\ createCalls = 0
    /\ supabase = NoClient

\* startup has thrown with a usable URL and no key
C20_Witness ==
  /\ startup = "thrown"
  /\ env.VITE_SUPABASE_URL = "https://a.supabase.co"
  /\ env.VITE_SUPABASE_ANON_KEY = "undefined"
  /\ createCalls = 0

\* C21: whenever the login page or the sign-up page has rendered with a
\* non-null user, the app navigates to the home path; and whenever such a
\* page is displayed while the cached user is non-null, the location becomes
\* the home path unless, before the page renders again, the cached user
\* becomes null or the page is left.
C21_LoggedInUserSentHome ==
  /\ (LGPage \in RedirectingPages /\ lgRendered \in Users)
       ~> (LGLocation = "" /\ lgLastNav = "redirect")
  /\ (LGPage \in RedirectingPages /\ lgUser # NoUser)
       ~> (LGLocation = "" \/ lgUser = NoUser \/ LGPage \notin RedirectingPages)

\* the effect of the login page has sent a logged-in user home
C21_Witness ==
  /\ LGLocation = ""
  /\ lgLastNav = "redirect"
  /\ lgUser \in Users
  /\ Len(lgHistory) > 1

\* C22: one toggleTheme call flips the effective theme, from every theme
\* setting and either system preference: light becomes dark and dark
\* becomes light.
C22_ToggleFlips ==
  thmLast # NoToggle =>
    \/ thmLast = Toggle("light", "dark")
    \/ thmLast = Toggle("dark", "light")

\* toggleTheme was called while the setting was auto and the system dark
C22_Witness ==
  /\ thmLast = Toggle("dark", "light")
  /\ thmSystemDark
  /\ thmToggles = 1
  /\ thmStored = "light"

\* C23: once a SIGNED_OUT event has been applied, and until the next
\* sign-in, the cached user is null and stays null: the request that was
\* in flight is dropped, and a request in flight afterwards cannot bring
\* back the user from before the sign-out.
C23_LateResultKeepsNull ==
  lastEvent.type = "SIGNED_OUT" =>
    /\ cachedUser = NoUser
    /\ fetch.active => fetch.result = NoUser

\* a result of the user query was written after the sign-out
C23_Witness ==
  /\ lastEvent.type = "SIGNED_OUT"
  /\ fetchedSinceEvent
  /\ ~fetch.active
  /\ cachedUser = NoUser

\* the calls that start or finish a mutation rather than filter its rows
NonFilterMethods == {"insert", "update", "delete", "select", "single"}

\* C24: every update or delete that is sent carries at least one row
\* filter, and a call that supplies neither an id nor a where array is
\* rejected with nothing sent.
C24_MutationsAreFiltered ==
  /\ (mutPhase = "sent" /\ mutCall.type \in {"update", "delete"}) =>
       \E i \in 1..Len(mutSent) : mutSent[i].method \notin NonFilterMethods
  /\ (mutPhase \in {"sent", "rejected"} /\ mutCall.type \in {"update", "delete"}
        /\ mutCall.params.id = Undefined /\ ~mutCall.params.hasWhere) =>
       (mutPhase = "rejected" /\ mutSent = <<>>)

\* C25: on the todo page the current page index is less than the total
\* page count whenever the total page count is at least 1.
C25_ShownPageExists ==
  PgTotalPages >= 1 => pgPage < PgTotalPages

\* C26: two useSupabaseQuery calls on the same table with different select
\* lists or filters never read each other's cached rows: the data a
\* mounted hook returns was read with its own select list and filter.
C26_OwnRowsOnly ==
  \A h \in SQHookIds :
    (sqHooks[h] # NoHook /\ SQData(h).present) => SQData(h) = SQQueryFn(sqHooks[h])

\* C27: no builder method changes a builder that already exists: whichever
\* builder the method is called on, the query key and the execute() calls
\* of every builder constructed so far, the receiver included, are the same
\* after the call as before it.
C27_MethodsLeaveReceiver ==
  [][\A i \in 1..Len(hpBuilders) :
        /\ HQueryKey(i)' = HQueryKey(i)
        /\ HExecuteCalls(i)' = HExecuteCalls(i)]_vars

\* a builder derived from a derived builder holds two conditions and a sort
\* while its ancestors hold fewer
C27_Witness ==
  /\ Len(hpBuilders) = 3
  /\ hpLast = 3
  /\ HDeref(hpBuilders[1], hpArrays) = NewBuilder(Table)
  /\ Len(hpArrays[hpBuilders[2].whereConditions]) = 1
  /\ Len(hpArrays[hpBuilders[3].whereConditions]) = 2

\* a listed notification is at most 5000 ms old and its timeout is pending
NtWithinDelay ==
  \A i \in 1..Len(ntNotifications) :
    /\ ntNow <= ntNotifications[i].timestamp + AutoRemoveMs
    /\ [id |-> ntNotifications[i].id, due |-> ntNotifications[i].timestamp + AutoRemoveMs]
         \in ntTimers

\* the removal by a timeout happens 5000 ms after the notification was
\* added and keeps every other notification, in order
NtRemovalIsExact ==
  ntLast # NtNoRemoval =>
    /\ ~ \E j \in 1..Len(ntLast.after) : ntLast.after[j].id = ntLast.id
    /\ ntLast.after = SelectSeq(ntLast.before, LAMBDA n : n \in {ntLast.after[j] : j \in 1..Len(ntLast.after)})
    /\ \A i \in 1..Len(ntLast.before) :
         IF ntLast.before[i].id = ntLast.id
         THEN ntLast.at = ntLast.before[i].timestamp + AutoRemoveMs
         ELSE \E j \in 1..Len(ntLast.after) : ntLast.after[j] = ntLast.before[i]

\* C28: every notification added with addNotification is removed from the
\* list 5 seconds after it was added unless it was removed earlier, and
\* that removal leaves every other notification in the list.
C28_RemovedAfterFiveSeconds ==
  /\ [](NtWithinDelay /\ NtRemovalIsExact)
  /\ \A id \in 1..MaxNotifications : NtListed(id) ~> ~NtListed(id)

\* a timeout has removed the older of two listed notifications
C28_Witness ==
  /\ Len(ntLast.before) = 2
  /\ Len(ntLast.after) = 1
  /\ ntLast.before[1].id = ntLast.id
  /\ ntLast.at = AutoRemoveMs + 1000

\* C29: for totalPages >= 2, maxPageNumbers >= 1 and currentPage within
\* [0, totalPages - 1], Pagination shows exactly min(maxPageNumbers,
\* totalPages) consecutive page numbers, all within [0, totalPages - 1],
\* and currentPage is one of them.
C29_PageNumbers ==
  pnTotalPages >= 2 =>
    /\ Len(pnNumbers) = PnMin(pnMaxPageNumbers, pnTotalPages)
    /\ \A i \in 1..Len(pnNumbers) : pnNumbers[i] \in 0..(pnTotalPages - 1)
    /\ \A i \in 1..(Len(pnNumbers) - 1) : pnNumbers[i + 1] = pnNumbers[i] + 1
    /\ \E i \in 1..Len(pnNumbers) : pnNumbers[i] = pnCurrentPage

\* the last of six pages with five numbers shown: the window is moved back
C29_Witness ==
  /\ pnTotalPages = 6
  /\ pnMaxPageNumbers = 5
  /\ pnCurrentPage = 5
  /\ pnNumbers = <<1, 2, 3, 4, 5>>

\* C30: for page >= 0 and pageSize >= 1, createPaginationResult reports
\* hasNextPage true exactly when (page + 1) * pageSize < totalCount, which
\* is exactly when a row of the totalCount rows lies beyond the range
\* [page * pageSize, page * pageSize + pageSize - 1] of createPaginationQuery.
C30_HasNextPage ==
  prResult.present =>
    /\ prResult.hasNextPage <=>
         (prParams.page + 1) * prParams.pageSize < prResult.totalCount
    /\ prResult.hasNextPage <=>
         \E row \in 0..(prResult.totalCount - 1) : row > prRange.to
    /\ prRange.from = prParams.page * prParams.pageSize
    /\ prRange.to - prRange.from + 1 = prParams.pageSize

\* a full middle page of a table that has one more row after it
C30_Witness ==
  /\ prResult.present
  /\ prParams = PaginationParams(1, 3)
  /\ prResult.totalCount = 7
  /\ prResult.data = <<3, 4, 5>>
  /\ prResult.hasNextPage
====
